---- MODULE Spec2Model ----
(***************************************************************************)
(* Harp HRM: the client's aggregate HRMState, the handlers of AdminView    *)
(* and EmployeeView that transform it, and the remote document it is       *)
(* saved to and polled from.                                               *)
(*                                                                         *)
(* A handler is a closure over the props of the render that created it:    *)
(* its guards and the values it computes outside the updater read `view`   *)
(* (the rendered HRMState); the function it hands to onUpdateState runs on *)
(* `state` (React's current state).  Render makes the two equal again.     *)
(*                                                                         *)
(* Timestamps (Date.now(), ISO strings parsed back with new Date(..)) are  *)
(* held in whole seconds.  A 'yyyy-MM-dd' string is a day number and a     *)
(* 'yyyy-MM' string a month number of a calendar of DaysPerMonth-day       *)
(* months.  Identifiers built by string interpolation are tuples.  Money   *)
(* and hours are integers; a multiplier is held in hundredths.             *)
(***************************************************************************)
EXTENDS Integers, Sequences, FiniteSets, TLC

VARIABLES
  state,            \* App: const [state, setState] = useState<HRMState>(..)
  view,             \* the HRMState of the last render (the handlers' closure)
  saves,            \* saveData: the POST /hrm/data requests still in flight
  remote,           \* server: kv "harp_hrm_data" (Null when absent)
  lastDataHash,     \* SyncManager.lastDataHash
  currentUserId,    \* App: currentUserId
  today,            \* EmployeeView: today, fixed when the view mounts
  selectedPayroll,  \* PayrollManagementView: selectedPayroll
  selectedLeave,    \* LeaveReviewView: selectedLeave
  selectedTask,     \* TaskReviewView: selectedTask
  now,              \* Date.now()
  tz,               \* the browser's UTC offset, in hours
  toast,            \* the last toast shown
  polls,            \* SyncManager: the responses of the GET /hrm/data still in flight
  inits,            \* server: the POST /hrm/init requests being handled
  initOk,           \* the number of init responses with initialized: true
  localStorage,     \* localStorage["harp_hrm_data"] (Null when absent)
  loading,          \* App: isLoading, as the position of initializeData
  syncManager,      \* the SyncManager singleton, and the intervals it has live
  peer              \* a second browser: its App state and its SyncManager

vars == <<state, view, saves, remote, lastDataHash, currentUserId, today,
          selectedPayroll, selectedLeave, selectedTask, now, tz, toast,
          polls, inits, initOk, localStorage, loading, syncManager, peer>>

\* null, where a record is expected / where an identifier is expected
Null == [null |-> TRUE]
NoId == <<"null">>
\* null, where an ISO timestamp is expected
NoTime == 0 - 1

----------------------------------------------------------------------------
(* Bounds of the model *)

MaxAudit == 3
MaxEmployees == 3
MaxPayroll == 4
MaxTicks == 1
MaxTimeTicks == 2
MaxTimeAudit == 5
MaxTimeLogs == 2
MaxBreaks == 2
MaxTasks == 1
MaxLeaves == 2
MaxLeaveAudit == 4
MaxReviewAudit == 3
MaxSyncAudit == 3
MaxSaves == 1
MaxPolls == 1
MaxInits == 2
MaxStoreAudit == 1
DaysPerMonth == 30

\* UTC offsets of the browsers considered
TZOffsets == {0 - 5, 5}
\* the months an admin picks in the month input
Months == {1, 2}

----------------------------------------------------------------------------
(* Time and calendar *)

\* 1000 * 60 * 60 ms, in the model's unit of one second
MsPerHour == 60 * 60
MsPerDay == 24 * MsPerHour

Min(a, b) == IF a < b THEN a ELSE b
Max(a, b) == IF a > b THEN a ELSE b

\* new Date('yyyy-MM-dd').getTime(): a date-only string is UTC midnight
ParseDate(day) == day * MsPerDay

\* 'yyyy-MM' + '-01'
FirstDayOf(month) == month * DaysPerMonth

\* the local calendar month an instant falls in
LocalMonthOf(t) == ((t + tz * MsPerHour) \div MsPerDay) \div DaysPerMonth

\* date-fns startOfMonth: local midnight of the first day of t's local month
startOfMonth(t) == LocalMonthOf(t) * DaysPerMonth * MsPerDay - tz * MsPerHour

\* date-fns endOfMonth: the last millisecond of t's local month
endOfMonth(t) ==
  (LocalMonthOf(t) + 1) * DaysPerMonth * MsPerDay - 1 - tz * MsPerHour

\* format(date, 'yyyy-MM-dd'): local time
FormatDay(t) == (t + tz * MsPerHour) \div MsPerDay

----------------------------------------------------------------------------
(* Arrays *)

\* Array.prototype.find: the first element satisfying Test, else Null
FindIndex(s, Test(_)) ==
  IF \E i \in 1..Len(s) : Test(s[i])
  THEN CHOOSE i \in 1..Len(s) : Test(s[i]) /\ \A j \in 1..(i - 1) : ~Test(s[j])
  ELSE 0

Find(s, Test(_)) ==
  LET i == FindIndex(s, Test) IN IF i = 0 THEN Null ELSE s[i]

Some(s, Test(_)) == \E i \in 1..Len(s) : Test(s[i])

Filter(s, Test(_)) == SelectSeq(s, Test)

Map(s, F(_)) == [i \in 1..Len(s) |-> F(s[i])]

\* { ...obj, ...updates }
Spread(obj, updates) ==
  [f \in (DOMAIN obj) \cup (DOMAIN updates) |->
     IF f \in DOMAIN updates THEN updates[f] ELSE obj[f]]

RECURSIVE SumSeq(_)
SumSeq(s) == IF s = <<>> THEN 0 ELSE Head(s) + SumSeq(Tail(s))

----------------------------------------------------------------------------
(* Initial data *)

Employee(id, role, managerId, target, rate, earned, used) ==
  [id |-> id, role |-> role, managerId |-> managerId,
   monthlyHourTarget |-> target, hourlyRate |-> rate,
   compLeavesEarned |-> earned, compLeavesUsed |-> used]

Emp1 == Employee(<<"emp1">>, "admin", NoId, 100, 7500, 5, 1)
Emp5 == Employee(<<"emp5">>, "manager", <<"emp1">>, 80, 7000, 6, 2)
Emp7 == Employee(<<"emp7">>, "employee", <<"emp5">>, 40, 4500, 1, 0)

\* overtimeMultiplier: emp.monthlyHourTarget === 100 ? 1.25 : 1.0
DefaultMultiplier(target) == IF target = 100 THEN 125 ELSE 100

InitialOvertimeSettings(employees) ==
  Map(employees, LAMBDA emp :
        [employeeId |-> emp.id,
         overtimeMultiplier |-> DefaultMultiplier(emp.monthlyHourTarget)])

getInitialData ==
  [employees |-> <<Emp1, Emp7>>,
   timeLogs |-> <<>>,
   tasks |-> <<>>,
   leaveRequests |-> <<>>,
   payrollEntries |-> <<>>,
   overtimeSettings |-> InitialOvertimeSettings(<<Emp1, Emp7>>),
   auditLogs |-> <<>>]

----------------------------------------------------------------------------
(* App *)

\* const currentUser = state.employees.find((emp) => emp.id === currentUserId)
currentUser == Find(view.employees, LAMBDA emp : emp.id = currentUserId)

\* a faulty view selection: every logged-in user gets the manager's view
ViewShown_IgnoringRole ==
  IF loading # "done" THEN "loading"
  ELSE IF currentUser = Null THEN "login"
  ELSE "manager"

\* the view App renders for the logged-in user
ViewShown ==
  IF loading # "done" THEN "loading"
  ELSE IF currentUser = Null THEN "login"
  ELSE IF currentUser.role = "admin" THEN "admin"
  ELSE IF currentUser.role = "manager" THEN "manager"
  ELSE "employee"

\* the audit entry every handler appends inside its updater
AuditEntry(action, entityType, entityId) ==
  [id |-> <<"audit", now>>, timestamp |-> now, userId |-> currentUser.id,
   action |-> action, entityType |-> entityType, entityId |-> entityId]

\* room left for one more audit entry (bound of the model)
CanAudit == Len(state.auditLogs) < MaxAudit

Toast(level, text) == [level |-> level, text |-> text]

----------------------------------------------------------------------------
(* AdminView: payroll *)

\* the time logs handleProcessPayroll sums for emp: monthLogs
monthLogs(emp, month) ==
  LET monthStart == startOfMonth(ParseDate(FirstDayOf(month)))
      monthEnd == endOfMonth(monthStart)
  IN Filter(view.timeLogs, LAMBDA log :
       /\ log.employeeId = emp.id
       /\ ParseDate(log.date) >= monthStart
       /\ ParseDate(log.date) <= monthEnd
       /\ log.checkOut # NoTime)

\* overtimeSettings?.overtimeMultiplier || 1.0
MultiplierOf(settings, employeeId) ==
  LET s == Find(settings, LAMBDA o : o.employeeId = employeeId)
  IN IF s = Null \/ s.overtimeMultiplier = 0 THEN 100 ELSE s.overtimeMultiplier

\* a faulty overtime pay that leaves the multiplier out (C4 must reject it)
OvertimePay_NoMultiplier(overtimeHours, hourlyRate, multiplier) ==
  overtimeHours * hourlyRate

\* overtimeHours * emp.hourlyRate * overtimeMultiplier
OvertimePay(overtimeHours, hourlyRate, multiplier) ==
  (overtimeHours * hourlyRate * multiplier) \div 100

\* let regularHours = Math.min(totalHours, target)
RegularHours(totalHours, target) == Min(totalHours, target)

\* a faulty overtime rule that ignores the comp-leave balance (C3 must reject it)
OvertimeHours_IgnoringCompLeave(totalHours, target, compLeavesAvailable) ==
  IF totalHours > target THEN totalHours - target ELSE 0

\* if (totalHours > target && compLeavesAvailable <= 0) overtimeHours = ...
OvertimeHours(totalHours, target, compLeavesAvailable) ==
  IF totalHours > target /\ compLeavesAvailable <= 0
  THEN totalHours - target ELSE 0

\* const totalHours = monthLogs.reduce((sum, log) => sum + log.totalHours, 0)
totalHours(emp, month) ==
  SumSeq(Map(monthLogs(emp, month), LAMBDA log : log.totalHours))

\* the entry the forEach body computes for one employee
PayrollEntryFor(emp, month) ==
  LET target == emp.monthlyHourTarget
      compLeavesAvailable == emp.compLeavesEarned - emp.compLeavesUsed
      regularHours == RegularHours(totalHours(emp, month), target)
      overtimeHours ==
        OvertimeHours(totalHours(emp, month), target, compLeavesAvailable)
      overtimeMultiplier == MultiplierOf(view.overtimeSettings, emp.id)
      regularPay == regularHours * emp.hourlyRate
      overtimePay == OvertimePay(overtimeHours, emp.hourlyRate, overtimeMultiplier)
  IN [id |-> <<"payroll", now, emp.id>>,
      employeeId |-> emp.id,
      month |-> month,
      regularHours |-> regularHours,
      overtimeHours |-> overtimeHours,
      regularPay |-> regularPay,
      overtimePay |-> overtimePay,
      totalPay |-> regularPay + overtimePay,
      status |-> "pending",
      processedBy |-> currentUser.id,
      processedAt |-> now]

\* const existing = state.payrollEntries.find(...); if (!existing) push
HasPayroll(entries, employeeId, month) ==
  Some(entries, LAMBDA p : p.employeeId = employeeId /\ p.month = month)

newPayrollEntries(month) ==
  Map(Filter(view.employees,
             LAMBDA emp : ~HasPayroll(view.payrollEntries, emp.id, month)),
      LAMBDA emp : PayrollEntryFor(emp, month))

handleProcessPayroll(month) ==
  /\ ViewShown = "admin"
  /\ IF newPayrollEntries(month) = <<>>
     THEN /\ toast' = Toast("error", "Payroll already processed for this month")
          /\ UNCHANGED state
     ELSE /\ CanAudit
          /\ Len(state.payrollEntries) + Len(newPayrollEntries(month)) <= MaxPayroll
          /\ state' = [state EXCEPT
               !.payrollEntries = @ \o newPayrollEntries(month),
               !.auditLogs = Append(@, AuditEntry("Payroll Processed", "Payroll",
                                                  <<"month", month>>))]
          /\ toast' = Toast("success", "Payroll processed")
  /\ UNCHANGED <<view, saves, remote, lastDataHash, currentUserId, today,
                 selectedPayroll, selectedLeave, selectedTask, now, tz,
                 polls, inits, initOk, localStorage, loading,
                 syncManager, peer>>

\* PayrollManagementView: the Edit button of a row of the payroll table
selectPayroll(entry) ==
  /\ ViewShown = "admin"
  /\ selectedPayroll' = entry
  /\ UNCHANGED <<state, view, saves, remote, lastDataHash, currentUserId, today,
                 selectedLeave, selectedTask, now, tz,
                 polls, inits, initOk, localStorage, loading, toast,
                 syncManager, peer>>

\* Dialog onOpenChange={() => setSelectedPayroll(null)}
closePayrollDialog ==
  /\ ViewShown = "admin"
  /\ selectedPayroll # Null
  /\ selectedPayroll' = Null
  /\ UNCHANGED <<state, view, saves, remote, lastDataHash, currentUserId, today,
                 selectedLeave, selectedTask, now, tz,
                 polls, inits, initOk, localStorage, loading, toast,
                 syncManager, peer>>

\* editValues.x ?? selectedPayroll.x
Coalesce(editValues, field) ==
  IF field \in DOMAIN editValues THEN editValues[field] ELSE selectedPayroll[field]

\* faulty updates that keep the pay of the entry being edited (C7 must reject them)
PayrollUpdates_NoRecompute(editValues) ==
  Spread(editValues, [regularPay |-> selectedPayroll.regularPay,
                      overtimePay |-> selectedPayroll.overtimePay,
                      totalPay |-> selectedPayroll.totalPay])

\* faulty updates whose total leaves the overtime pay out
PayrollUpdates_TotalWithoutOvertime(editValues) ==
  LET emp == Find(view.employees, LAMBDA e : e.id = selectedPayroll.employeeId)
      regularHours == Coalesce(editValues, "regularHours")
      overtimeHours == Coalesce(editValues, "overtimeHours")
      multiplier == MultiplierOf(view.overtimeSettings, emp.id)
      regularPay == regularHours * emp.hourlyRate
      overtimePay == OvertimePay(overtimeHours, emp.hourlyRate, multiplier)
  IN Spread(editValues, [regularPay |-> regularPay,
                         overtimePay |-> overtimePay,
                         totalPay |-> regularPay])

\* PayrollManagementView.handleUpdatePayroll: the updates it hands to onUpdatePayroll
PayrollUpdates(editValues) ==
  LET emp == Find(view.employees, LAMBDA e : e.id = selectedPayroll.employeeId)
      regularHours == Coalesce(editValues, "regularHours")
      overtimeHours == Coalesce(editValues, "overtimeHours")
      multiplier == MultiplierOf(view.overtimeSettings, emp.id)
      regularPay == regularHours * emp.hourlyRate
      overtimePay == OvertimePay(overtimeHours, emp.hourlyRate, multiplier)
  IN Spread(editValues, [regularPay |-> regularPay,
                         overtimePay |-> overtimePay,
                         totalPay |-> regularPay + overtimePay])

\* AdminView.handleUpdatePayroll: the updater's payrollEntries
UpdatedPayrollEntries(entries, payrollId, updates) ==
  Map(entries, LAMBDA entry :
        IF entry.id = payrollId THEN Spread(entry, updates) ELSE entry)

\* PayrollManagementView.handleUpdatePayroll calling AdminView.handleUpdatePayroll
handleUpdatePayroll(editValues) ==
  /\ ViewShown = "admin"
  /\ selectedPayroll # Null
  /\ IF ~Some(view.employees, LAMBDA e : e.id = selectedPayroll.employeeId)
     THEN UNCHANGED <<state, selectedPayroll, toast>>
     ELSE /\ CanAudit
          /\ state' = [state EXCEPT
               !.payrollEntries =
                 UpdatedPayrollEntries(@, selectedPayroll.id, PayrollUpdates(editValues)),
               !.auditLogs = Append(@, AuditEntry("Payroll Updated", "Payroll",
                                                  selectedPayroll.id))]
          /\ toast' = Toast("success", "Payroll updated")
          /\ selectedPayroll' = Null
  /\ UNCHANGED <<view, saves, remote, lastDataHash, currentUserId, today,
                 selectedLeave, selectedTask, now, tz,
                 polls, inits, initOk, localStorage, loading,
                 syncManager, peer>>

----------------------------------------------------------------------------
(* AdminView: employees and settings *)

handleCreateEmployee(newEmployee) ==
  LET id == <<"emp", now>>
  IN /\ ViewShown = "admin"
     /\ CanAudit
     /\ Len(state.employees) < MaxEmployees
     /\ state' = [state EXCEPT
          !.employees = Append(@, Spread(newEmployee, [id |-> id])),
          !.overtimeSettings = Append(@,
             [employeeId |-> id,
              overtimeMultiplier |-> DefaultMultiplier(newEmployee.monthlyHourTarget)]),
          !.auditLogs = Append(@, AuditEntry("Employee Created", "Employee", id))]
     /\ toast' = Toast("success", "Employee created successfully")
     /\ UNCHANGED <<view, saves, remote, lastDataHash, currentUserId, today,
                    selectedPayroll, selectedLeave, selectedTask, now, tz,
                 polls, inits, initOk, localStorage, loading,
                 syncManager, peer>>

handleUpdateEmployee(employeeId, updates) ==
  /\ ViewShown = "admin"
  /\ CanAudit
  /\ state' = [state EXCEPT
       !.employees = Map(@, LAMBDA emp :
          IF emp.id = employeeId THEN Spread(emp, updates) ELSE emp),
       !.auditLogs = Append(@, AuditEntry("Employee Updated", "Employee", employeeId))]
  /\ toast' = Toast("success", "Employee updated successfully")
  /\ UNCHANGED <<view, saves, remote, lastDataHash, currentUserId, today,
                 selectedPayroll, selectedLeave, selectedTask, now, tz,
                 polls, inits, initOk, localStorage, loading,
                 syncManager, peer>>

\* a faulty delete: the payroll entries of the employee are kept
handleDeleteEmployee_NoCascade(employeeId) ==
  /\ ViewShown = "admin"
  /\ IF ~Some(view.employees, LAMBDA e : e.id = employeeId)
     THEN UNCHANGED <<state, toast>>
     ELSE /\ CanAudit
          /\ state' = [state EXCEPT
               !.employees = Filter(@, LAMBDA e : e.id # employeeId),
               !.timeLogs = Filter(@, LAMBDA t : t.employeeId # employeeId),
               !.tasks = Filter(@, LAMBDA t : t.employeeId # employeeId),
               !.leaveRequests = Filter(@, LAMBDA l : l.employeeId # employeeId),
               !.overtimeSettings = Filter(@, LAMBDA o : o.employeeId # employeeId),
               !.auditLogs = Append(@, AuditEntry("Employee Deleted", "Employee",
                                                  employeeId))]
          /\ toast' = Toast("success", "Employee deleted")
  /\ UNCHANGED <<view, saves, remote, lastDataHash, currentUserId, today,
                 selectedPayroll, selectedLeave, selectedTask, now, tz,
                 polls, inits, initOk, localStorage, loading,
                 syncManager, peer>>

handleDeleteEmployee(employeeId) ==
  /\ ViewShown = "admin"
  /\ IF ~Some(view.employees, LAMBDA e : e.id = employeeId)
     THEN UNCHANGED <<state, toast>>
     ELSE /\ CanAudit
          /\ state' = [state EXCEPT
               !.employees = Filter(@, LAMBDA e : e.id # employeeId),
               !.timeLogs = Filter(@, LAMBDA t : t.employeeId # employeeId),
               !.tasks = Filter(@, LAMBDA t : t.employeeId # employeeId),
               !.leaveRequests = Filter(@, LAMBDA l : l.employeeId # employeeId),
               !.payrollEntries = Filter(@, LAMBDA p : p.employeeId # employeeId),
               !.overtimeSettings = Filter(@, LAMBDA o : o.employeeId # employeeId),
               !.auditLogs = Append(@, AuditEntry("Employee Deleted", "Employee",
                                                  employeeId))]
          /\ toast' = Toast("success", "Employee deleted")
  /\ UNCHANGED <<view, saves, remote, lastDataHash, currentUserId, today,
                 selectedPayroll, selectedLeave, selectedTask, now, tz,
                 polls, inits, initOk, localStorage, loading,
                 syncManager, peer>>

handleGrantCompLeave(employeeId, days) ==
  /\ ViewShown = "admin"
  /\ CanAudit
  /\ state' = [state EXCEPT
       !.employees = Map(@, LAMBDA emp :
          IF emp.id = employeeId
          THEN [emp EXCEPT !.compLeavesEarned = @ + days] ELSE emp),
       !.auditLogs = Append(@, AuditEntry("Comp Leave Granted", "Employee", employeeId))]
  /\ toast' = Toast("success", "Granted comp leave(s)")
  /\ UNCHANGED <<view, saves, remote, lastDataHash, currentUserId, today,
                 selectedPayroll, selectedLeave, selectedTask, now, tz,
                 polls, inits, initOk, localStorage, loading,
                 syncManager, peer>>

handleUpdateOvertimeSettings(employeeId, multiplier) ==
  LET existingSettings == Some(state.overtimeSettings, LAMBDA s : s.employeeId = employeeId)
      updatedSettings ==
        IF existingSettings
        THEN Map(state.overtimeSettings, LAMBDA s :
               IF s.employeeId = employeeId
               THEN [s EXCEPT !.overtimeMultiplier = multiplier] ELSE s)
        ELSE Append(state.overtimeSettings,
                    [employeeId |-> employeeId, overtimeMultiplier |-> multiplier])
  IN /\ ViewShown = "admin"
     /\ CanAudit
     /\ state' = [state EXCEPT
          !.overtimeSettings = updatedSettings,
          !.auditLogs = Append(@, AuditEntry("Overtime Settings Updated",
                                             "OvertimeSettings", employeeId))]
     /\ toast' = Toast("success", "Overtime settings updated")
     /\ UNCHANGED <<view, saves, remote, lastDataHash, currentUserId, today,
                    selectedPayroll, selectedLeave, selectedTask, now, tz,
                 polls, inits, initOk, localStorage, loading,
                 syncManager, peer>>

----------------------------------------------------------------------------
(* EmployeeView: the time ledger and the task log *)

\* room left for one more audit entry in an employee's session (bound)
CanAuditTime == Len(state.auditLogs) < MaxTimeAudit

\* state.timeLogs.find(log => log.employeeId === employee.id && log.date === today)
todayTimeLog ==
  Find(view.timeLogs, LAMBDA log : log.employeeId = currentUser.id /\ log.date = today)

\* state.tasks.filter(task => task.employeeId === employee.id && task.date === today)
myTasks ==
  Filter(view.tasks, LAMBDA task : task.employeeId = currentUser.id /\ task.date = today)

handleCheckIn ==
  LET newLog == [id |-> <<"log", now>>,
                 employeeId |-> currentUser.id,
                 date |-> today,
                 checkIn |-> now,
                 checkOut |-> NoTime,
                 breaks |-> <<>>,
                 totalHours |-> 0,
                 status |-> "checked-in"]
  IN /\ ViewShown = "employee"
     /\ IF todayTimeLog # Null
        THEN /\ toast' = Toast("error", "Already checked in today")
             /\ UNCHANGED state
        ELSE /\ CanAuditTime
             /\ Len(state.timeLogs) < MaxTimeLogs
             /\ state' = [state EXCEPT
                  !.timeLogs = Append(@, newLog),
                  !.auditLogs = Append(@, AuditEntry("Check In", "TimeLog", newLog.id))]
             /\ toast' = Toast("success", "Checked in successfully")
     /\ UNCHANGED <<view, saves, remote, lastDataHash, currentUserId, today,
                    selectedPayroll, selectedLeave, selectedTask, now, tz,
                 polls, inits, initOk, localStorage, loading,
                 syncManager, peer>>

\* the time one break takes off, a break still open ending at check-out
BreakMs(breakLog, checkOutTime) ==
  (IF breakLog.breakOut # NoTime THEN breakLog.breakOut ELSE checkOutTime)
    - breakLog.breakIn

\* handleCheckOut's totalHours: from the rendered entry's checkIn and breaks
CheckOutHours(timeLog, checkOutTime) ==
  LET totalMs == (checkOutTime - timeLog.checkIn)
                   - SumSeq(Map(timeLog.breaks, LAMBDA b : BreakMs(b, checkOutTime)))
  IN Max(0, totalMs \div MsPerHour)

\* a faulty check-out: the status of the entry is left as it was
handleCheckOut_KeepsStatus ==
  /\ ViewShown = "employee"
  /\ IF todayTimeLog = Null \/ todayTimeLog.checkOut # NoTime
     THEN /\ toast' = Toast("error", "Invalid check-out attempt")
          /\ UNCHANGED state
     ELSE IF Len(myTasks) = 0
     THEN /\ toast' = Toast("error", "Please add your tasks before checking out")
          /\ UNCHANGED state
     ELSE /\ CanAuditTime
          /\ state' = [state EXCEPT
               !.timeLogs = Map(@, LAMBDA log :
                  IF log.id = todayTimeLog.id
                  THEN [log EXCEPT !.checkOut = now,
                                   !.totalHours = CheckOutHours(todayTimeLog, now)]
                  ELSE log),
               !.auditLogs = Append(@, AuditEntry("Check Out", "TimeLog",
                                                  todayTimeLog.id))]
          /\ toast' = Toast("success", "Checked out successfully")
  /\ UNCHANGED <<view, saves, remote, lastDataHash, currentUserId, today,
                 selectedPayroll, selectedLeave, selectedTask, now, tz,
                 polls, inits, initOk, localStorage, loading,
                 syncManager, peer>>

handleCheckOut ==
  /\ ViewShown = "employee"
  /\ IF todayTimeLog = Null \/ todayTimeLog.checkOut # NoTime
     THEN /\ toast' = Toast("error", "Invalid check-out attempt")
          /\ UNCHANGED state
     ELSE IF Len(myTasks) = 0
     THEN /\ toast' = Toast("error", "Please add your tasks before checking out")
          /\ UNCHANGED state
     ELSE /\ CanAuditTime
          /\ state' = [state EXCEPT
               !.timeLogs = Map(@, LAMBDA log :
                  IF log.id = todayTimeLog.id
                  THEN [log EXCEPT !.checkOut = now,
                                   !.totalHours = CheckOutHours(todayTimeLog, now),
                                   !.status = "checked-out"]
                  ELSE log),
               !.auditLogs = Append(@, AuditEntry("Check Out", "TimeLog",
                                                  todayTimeLog.id))]
          /\ toast' = Toast("success", "Checked out successfully")
  /\ UNCHANGED <<view, saves, remote, lastDataHash, currentUserId, today,
                 selectedPayroll, selectedLeave, selectedTask, now, tz,
                 polls, inits, initOk, localStorage, loading,
                 syncManager, peer>>

\* todayTimeLog.breaks.some(b => b.breakIn && !b.breakOut)
OnBreak(timeLog) == Some(timeLog.breaks, LAMBDA b : b.breakOut = NoTime)

\* a faulty tracker: the break still open is not taken off
calculateHoursWorked_WithoutOpenBreak ==
  LET timeLog == todayTimeLog
      checkOutTime == IF timeLog.checkOut # NoTime THEN timeLog.checkOut ELSE now
      totalMs == (checkOutTime - timeLog.checkIn)
                   - SumSeq(Map(timeLog.breaks, LAMBDA breakLog :
                       IF breakLog.breakOut # NoTime
                       THEN breakLog.breakOut - breakLog.breakIn
                       ELSE 0))
  IN IF timeLog = Null THEN 0 ELSE Max(0, totalMs \div MsPerHour)

\* TimeTracking.calculateHoursWorked for timeLog = todayTimeLog of the render,
\* currentTime being the clock the component refreshes every second
calculateHoursWorked ==
  LET timeLog == todayTimeLog
      currentTime == now
      onBreak == OnBreak(timeLog)
      checkOutTime == IF timeLog.checkOut # NoTime THEN timeLog.checkOut
                      ELSE currentTime
      totalMs == (checkOutTime - timeLog.checkIn)
                   - SumSeq(Map(timeLog.breaks, LAMBDA breakLog :
                       IF breakLog.breakOut # NoTime
                       THEN breakLog.breakOut - breakLog.breakIn
                       ELSE IF onBreak
                       THEN currentTime - breakLog.breakIn
                       ELSE 0))
  IN IF timeLog = Null THEN 0 ELSE Max(0, totalMs \div MsPerHour)

\* the break handleBreakIn appends to the i-th stored entry; `ref` is the
\* identity of the object, which handleBreakOut compares with ===
NewBreak(logs, i) ==
  [breakIn |-> now, breakOut |-> NoTime, ref |-> <<i, Len(logs[i].breaks) + 1>>]

handleBreakIn ==
  /\ ViewShown = "employee"
  /\ IF todayTimeLog = Null \/ todayTimeLog.checkOut # NoTime
     THEN /\ toast' = Toast("error", "Invalid break attempt")
          /\ UNCHANGED state
     ELSE IF OnBreak(todayTimeLog)
     THEN /\ toast' = Toast("error", "Already on break")
          /\ UNCHANGED state
     ELSE /\ CanAuditTime
          /\ \A i \in 1..Len(state.timeLogs) :
               state.timeLogs[i].id = todayTimeLog.id
                 => Len(state.timeLogs[i].breaks) < MaxBreaks
          /\ state' = [state EXCEPT
               !.timeLogs = [i \in 1..Len(@) |->
                  IF @[i].id = todayTimeLog.id
                  THEN [@[i] EXCEPT !.breaks = Append(@, NewBreak(state.timeLogs, i))]
                  ELSE @[i]],
               !.auditLogs = Append(@, AuditEntry("Break Start", "TimeLog",
                                                  todayTimeLog.id))]
          /\ toast' = Toast("success", "Break started")
  /\ UNCHANGED <<view, saves, remote, lastDataHash, currentUserId, today,
                 selectedPayroll, selectedLeave, selectedTask, now, tz,
                 polls, inits, initOk, localStorage, loading,
                 syncManager, peer>>

handleBreakOut ==
  LET currentBreak == Find(todayTimeLog.breaks, LAMBDA b : b.breakOut = NoTime)
  IN /\ ViewShown = "employee"
     /\ IF todayTimeLog = Null
        THEN UNCHANGED <<state, toast>>
        ELSE IF currentBreak = Null
        THEN /\ toast' = Toast("error", "No active break")
             /\ UNCHANGED state
        ELSE /\ CanAuditTime
             /\ state' = [state EXCEPT
                  !.timeLogs = Map(@, LAMBDA log :
                     IF log.id = todayTimeLog.id
                     THEN [log EXCEPT !.breaks = Map(@, LAMBDA b :
                             IF b = currentBreak
                             THEN [b EXCEPT !.breakOut = now] ELSE b)]
                     ELSE log),
                  !.auditLogs = Append(@, AuditEntry("Break End", "TimeLog",
                                                     todayTimeLog.id))]
             /\ toast' = Toast("success", "Break ended")
     /\ UNCHANGED <<view, saves, remote, lastDataHash, currentUserId, today,
                    selectedPayroll, selectedLeave, selectedTask, now, tz,
                 polls, inits, initOk, localStorage, loading,
                 syncManager, peer>>

handleAddTask(description, hours) ==
  LET newTask == [id |-> <<"task", now>>,
                  employeeId |-> currentUser.id,
                  date |-> today,
                  description |-> description,
                  hoursSpent |-> hours,
                  status |-> "pending"]
  IN /\ ViewShown = "employee"
     /\ CanAuditTime
     /\ Len(state.tasks) < MaxTasks
     /\ state' = [state EXCEPT
          !.tasks = Append(@, newTask),
          !.auditLogs = Append(@, AuditEntry("Task Created", "Task", newTask.id))]
     /\ toast' = Toast("success", "Task added successfully")
     /\ UNCHANGED <<view, saves, remote, lastDataHash, currentUserId, today,
                    selectedPayroll, selectedLeave, selectedTask, now, tz,
                 polls, inits, initOk, localStorage, loading,
                 syncManager, peer>>

handleDeleteTask(taskId) ==
  /\ ViewShown = "employee"
  /\ IF ~Some(view.tasks, LAMBDA t : t.id = taskId)
     THEN UNCHANGED <<state, toast>>
     ELSE /\ CanAuditTime
          /\ state' = [state EXCEPT
               !.tasks = Filter(@, LAMBDA t : t.id # taskId),
               !.auditLogs = Append(@, AuditEntry("Task Deleted", "Task", taskId))]
          /\ toast' = Toast("success", "Task deleted")
  /\ UNCHANGED <<view, saves, remote, lastDataHash, currentUserId, today,
                 selectedPayroll, selectedLeave, selectedTask, now, tz,
                 polls, inits, initOk, localStorage, loading,
                 syncManager, peer>>

----------------------------------------------------------------------------
(* EmployeeView and ManagerView: the leave ledger *)

\* room left for one more audit entry in a leave session (bound)
CanAuditLeave == Len(state.auditLogs) < MaxLeaveAudit

\* String.prototype.trim, on the reasons and comments entered
Trim(text) == IF text = " " THEN "" ELSE text

handleRequestLeave(startDate, endDate, reason) ==
  LET newRequest == [id |-> <<"leave", now>>,
                     employeeId |-> currentUser.id,
                     startDate |-> startDate,
                     endDate |-> endDate,
                     reason |-> reason,
                     status |-> "pending",
                     requestedAt |-> now]
  IN /\ ViewShown = "employee"
     /\ CanAuditLeave
     /\ Len(state.leaveRequests) < MaxLeaves
     /\ state' = [state EXCEPT
          !.leaveRequests = Append(@, newRequest),
          !.auditLogs = Append(@, AuditEntry("Leave Request Created", "LeaveRequest",
                                             newRequest.id))]
     /\ toast' = Toast("success", "Leave request submitted")
     /\ UNCHANGED <<view, saves, remote, lastDataHash, currentUserId, today,
                    selectedPayroll, selectedLeave, selectedTask, now, tz,
                 polls, inits, initOk, localStorage, loading,
                 syncManager, peer>>

\* LeaveManagementEmployee.handleSubmit: startDate && endDate && reason.trim();
\* the dialog opens from a button disabled while availableLeaves <= 0
handleSubmit(startDate, endDate, reason) ==
  /\ ViewShown = "employee"
  /\ currentUser.compLeavesEarned - currentUser.compLeavesUsed > 0
  /\ IF Trim(reason) # ""
     THEN handleRequestLeave(startDate, endDate, Trim(reason))
     ELSE UNCHANGED vars

\* const teamMembers = state.employees.filter(emp => emp.managerId === employee.id)
teamMembers == Filter(view.employees, LAMBDA emp : emp.managerId = currentUser.id)

IsTeamMember(employeeId) == Some(teamMembers, LAMBDA tm : tm.id = employeeId)

teamLeaveRequests ==
  Filter(view.leaveRequests, LAMBDA req : IsTeamMember(req.employeeId))

\* LeaveReviewView: the Review button, shown on the pending requests rendered
selectLeave(request) ==
  /\ ViewShown = "manager"
  /\ selectedLeave = Null
  /\ request.status = "pending"
  /\ selectedLeave' = request
  /\ UNCHANGED <<state, view, saves, remote, lastDataHash, currentUserId, today,
                 selectedPayroll, selectedTask, now, tz,
                 polls, inits, initOk, localStorage, loading, toast,
                 syncManager, peer>>

\* Dialog onOpenChange={() => setSelectedLeave(null)}
closeLeaveDialog ==
  /\ ViewShown = "manager"
  /\ selectedLeave # Null
  /\ selectedLeave' = Null
  /\ UNCHANGED <<state, view, saves, remote, lastDataHash, currentUserId, today,
                 selectedPayroll, selectedTask, now, tz,
                 polls, inits, initOk, localStorage, loading, toast,
                 syncManager, peer>>

\* a faulty updater: charges one comp leave per day of the range
DecidedState_PerDay(s, leave, approved, comment) ==
  [s EXCEPT
     !.leaveRequests = Map(@, LAMBDA req :
        IF req.id = leave.id
        THEN Spread(req, [status |-> IF approved THEN "approved" ELSE "rejected",
                          reviewedBy |-> currentUser.id,
                          reviewedAt |-> now,
                          reviewComment |-> comment])
        ELSE req),
     !.employees =
        IF approved
        THEN Map(@, LAMBDA e :
               IF e.id = leave.employeeId
               THEN [e EXCEPT !.compLeavesUsed = @ + (leave.endDate - leave.startDate) + 1]
               ELSE e)
        ELSE @,
     !.auditLogs = Append(@, AuditEntry("Leave Approved", "LeaveRequest", leave.id))]

\* the updater of handleApproveLeave, for the request `leave` found in the render
DecidedState(s, leave, approved, comment) ==
  [s EXCEPT
     !.leaveRequests = Map(@, LAMBDA req :
        IF req.id = leave.id
        THEN Spread(req, [status |-> IF approved THEN "approved" ELSE "rejected",
                          reviewedBy |-> currentUser.id,
                          reviewedAt |-> now,
                          reviewComment |-> comment])
        ELSE req),
     !.employees =
        IF approved
        THEN Map(@, LAMBDA e :
               IF e.id = leave.employeeId
               THEN [e EXCEPT !.compLeavesUsed = @ + 1] ELSE e)
        ELSE @,
     !.auditLogs = Append(@, AuditEntry(IF approved THEN "Leave Approved"
                                        ELSE "Leave Rejected",
                                        "LeaveRequest", leave.id))]

\* LeaveReviewView.handleApprove calling ManagerView.handleApproveLeave
handleApproveLeave(leaveId, approved, comment) ==
  LET leave == Find(view.leaveRequests, LAMBDA l : l.id = leaveId)
  IN /\ ViewShown = "manager"
     /\ IF leave = Null
        THEN UNCHANGED <<state, toast>>
        ELSE IF ~Some(view.employees, LAMBDA e : e.id = leave.employeeId)
        THEN UNCHANGED <<state, toast>>
        ELSE /\ CanAuditLeave
             /\ state' = DecidedState(state, leave, approved, comment)
             /\ toast' = Toast("success", IF approved THEN "Leave approved"
                                          ELSE "Leave rejected")
     /\ selectedLeave' = Null
     /\ UNCHANGED <<view, saves, remote, lastDataHash, currentUserId, today,
                    selectedPayroll, selectedTask, now, tz,
                 polls, inits, initOk, localStorage, loading,
                 syncManager, peer>>

\* ManagerView.handleGrantCompLeave
ManagerView_handleGrantCompLeave(employeeId, days) ==
  /\ ViewShown = "manager"
  /\ CanAuditLeave
  /\ state' = [state EXCEPT
       !.employees = Map(@, LAMBDA emp :
          IF emp.id = employeeId
          THEN [emp EXCEPT !.compLeavesEarned = @ + days] ELSE emp),
       !.auditLogs = Append(@, AuditEntry("Comp Leave Granted", "Employee", employeeId))]
  /\ toast' = Toast("success", "Granted comp leave(s)")
  /\ UNCHANGED <<view, saves, remote, lastDataHash, currentUserId, today,
                 selectedPayroll, selectedLeave, selectedTask, now, tz,
                 polls, inits, initOk, localStorage, loading,
                 syncManager, peer>>

----------------------------------------------------------------------------
(* ManagerView: task review *)

\* room left for one more audit entry in a review session (bound)
CanAuditReview == Len(state.auditLogs) < MaxReviewAudit

\* const threeDaysAgo = new Date(now.getTime() - 3 * 24 * 60 * 60 * 1000)
threeDaysAgo == now - 3 * MsPerDay

teamTasks ==
  Filter(view.tasks, LAMBDA task :
           IsTeamMember(task.employeeId) /\ ParseDate(task.date) >= threeDaysAgo)

\* the updater of handleApproveTask and of handleCommentTask: the tasks mapped
\* by id, and the audit entry appended
ReviewedState(s, taskId, status, comment, reviewerId, at, audit) ==
  [s EXCEPT
     !.tasks = Map(@, LAMBDA task :
        IF task.id = taskId
        THEN Spread(task, [status |-> status,
                           managerComment |-> comment,
                           reviewedBy |-> reviewerId,
                           reviewedAt |-> at])
        ELSE task),
     !.auditLogs = Append(@, audit)]

handleApproveTask(taskId, withComment) ==
  /\ ViewShown = "manager"
  /\ CanAuditReview
  /\ state' = ReviewedState(state, taskId, "approved", withComment, currentUser.id, now,
                            AuditEntry("Task Approved", "Task", taskId))
  /\ selectedTask' = Null
  /\ toast' = Toast("success", "Task approved")
  /\ UNCHANGED <<view, saves, remote, lastDataHash, currentUserId, today,
                 selectedPayroll, selectedLeave, now, tz,
                 polls, inits, initOk, localStorage, loading,
                 syncManager, peer>>

handleCommentTask(taskId, commentText) ==
  /\ ViewShown = "manager"
  /\ IF Trim(commentText) = ""
     THEN UNCHANGED <<state, selectedTask, toast>>
     ELSE /\ CanAuditReview
          /\ state' = ReviewedState(state, taskId, "commented", commentText,
                                    currentUser.id, now,
                                    AuditEntry("Task Reviewed", "Task", taskId))
          /\ selectedTask' = Null
          /\ toast' = Toast("success", "Comment added")
  /\ UNCHANGED <<view, saves, remote, lastDataHash, currentUserId, today,
                 selectedPayroll, selectedLeave, now, tz,
                 polls, inits, initOk, localStorage, loading,
                 syncManager, peer>>

\* TaskReviewView: the Add Comment button, shown on the pending tasks rendered
selectTask(task) ==
  /\ ViewShown = "manager"
  /\ selectedTask = Null
  /\ task.status = "pending"
  /\ selectedTask' = task
  /\ UNCHANGED <<state, view, saves, remote, lastDataHash, currentUserId, today,
                 selectedPayroll, selectedLeave, now, tz,
                 polls, inits, initOk, localStorage, loading, toast,
                 syncManager, peer>>

\* Dialog onOpenChange={() => setSelectedTask(null)}
closeTaskDialog ==
  /\ ViewShown = "manager"
  /\ selectedTask # Null
  /\ selectedTask' = Null
  /\ UNCHANGED <<state, view, saves, remote, lastDataHash, currentUserId, today,
                 selectedPayroll, selectedLeave, now, tz,
                 polls, inits, initOk, localStorage, loading, toast,
                 syncManager, peer>>

\* TaskReviewView.handleSubmitComment: if (selectedTask && comment.trim())
handleSubmitComment(comment) ==
  /\ ViewShown = "manager"
  /\ IF selectedTask # Null /\ Trim(comment) # ""
     THEN handleCommentTask(selectedTask.id, Trim(comment))
     ELSE UNCHANGED vars

\* TaskReviewView: the Approve button of a pending task rendered
approveRow(task) ==
  /\ selectedTask = Null
  /\ task.status = "pending"
  /\ handleApproveTask(task.id, "")

\* TaskReviewView: Approve with Comment, onApprove(id, comment.trim() || undefined)
approveWithComment(comment) ==
  /\ selectedTask # Null
  /\ handleApproveTask(selectedTask.id, Trim(comment))

----------------------------------------------------------------------------
(* App: rendering, the auto-save effect, login, the sync poll; the server *)

\* a render commits the current state; when it changed, the effect on
\* [state, isLoading] calls saveData(state), which posts it
Commit ==
  /\ view' = state
  /\ saves' = IF view # state THEN saves \cup {state} ELSE saves

Render ==
  /\ view # state
  /\ Commit
  /\ UNCHANGED <<state, remote, lastDataHash, currentUserId, today,
                 selectedPayroll, selectedLeave, selectedTask, now, tz,
                 polls, inits, initOk, localStorage, loading, toast,
                 syncManager, peer>>

\* SyncManager: syncInterval: number | null = null
NoTimer == 0

\* window.setInterval returns an id no live interval has
NewTimer(timers) == CHOOSE id \in 1..(Cardinality(timers) + 1) : id \notin timers

\* a faulty start that schedules an interval also when one is running
start_WithoutGuard(manager) ==
  LET id == NewTimer(manager.timers)
  IN [isEnabled |-> TRUE, syncInterval |-> id, timers |-> manager.timers \cup {id}]

\* SyncManager.start: if (this.isEnabled) return; else setInterval
start(manager) ==
  IF manager.isEnabled
  THEN manager
  ELSE LET id == NewTimer(manager.timers)
       IN [isEnabled |-> TRUE, syncInterval |-> id,
           timers |-> manager.timers \cup {id}]

\* SyncManager.stop: if (this.syncInterval !== null) clearInterval
stop(manager) ==
  IF manager.syncInterval # NoTimer
  THEN [isEnabled |-> FALSE, syncInterval |-> NoTimer,
        timers |-> manager.timers \ {manager.syncInterval}]
  ELSE manager

\* SyncManager.isRunning
isRunning(manager) == manager.isEnabled

\* a faulty sync effect that never stops the manager
syncEffect_NeverStops(manager, userId, isLoading) ==
  IF userId # NoId /\ ~isLoading THEN start(manager) ELSE manager

\* App: the effect on [currentUserId, isLoading]: the cleanup of the previous
\* run stops the manager, then it is started for a logged-in user once loaded
syncEffect(manager, userId, isLoading) ==
  IF userId # NoId /\ ~isLoading
  THEN start(stop(manager))
  ELSE stop(stop(manager))

\* no second browser is open
NoBrowser == [state |-> Null, view |-> Null, saves |-> {}, lastDataHash |-> Null]

\* the manager as constructed, and as the effect leaves it for a logged-in user
Stopped == [isEnabled |-> FALSE, syncInterval |-> NoTimer, timers |-> {}]
Started == start(Stopped)

\* LoginScreen.handleLogin calling App.handleLogin
handleLogin(employee) ==
  /\ ViewShown = "login"
  /\ currentUserId' = employee.id
  /\ today' = FormatDay(now)
  /\ selectedPayroll' = Null
  /\ selectedLeave' = Null
  /\ selectedTask' = Null
  /\ toast' = Toast("success", "Welcome back")
  /\ Commit
  /\ syncManager' = syncEffect(syncManager, currentUserId', loading # "done")
  /\ UNCHANGED peer
  /\ UNCHANGED <<state, remote, lastDataHash, now, tz,
                 polls, inits, initOk, localStorage, loading>>

handleLogout ==
  /\ currentUserId # NoId
  /\ currentUserId' = NoId
  /\ selectedPayroll' = Null
  /\ selectedLeave' = Null
  /\ selectedTask' = Null
  /\ Commit
  /\ syncManager' = syncEffect(syncManager, currentUserId', loading # "done")
  /\ UNCHANGED peer
  /\ UNCHANGED <<state, remote, lastDataHash, today, now, tz,
                 polls, inits, initOk, localStorage, loading, toast>>

\* server: if (!body.data) return 400, else kv.set("harp_hrm_data", body.data);
\* a field-merging store, which the document-level writes must differ from
StoredAfterPost_Merged(store, body) ==
  IF "data" \notin DOMAIN body THEN store
  ELSE IF store = Null THEN body.data
  ELSE [body.data EXCEPT !.auditLogs = store.auditLogs \o @]

StoredAfterPost(store, body) ==
  IF "data" \notin DOMAIN body THEN store ELSE body.data

\* saveData(data) succeeding: POST /hrm/data answers success: true, and the
\* document is cached unless localStorage.setItem throws
PostData(data) ==
  /\ data \in saves
  /\ saves' = saves \ {data}
  /\ remote' = StoredAfterPost(remote, [data |-> data])
  /\ localStorage' \in {data, localStorage}
  /\ UNCHANGED <<state, view, lastDataHash, currentUserId, today,
                 selectedPayroll, selectedLeave, selectedTask, now, tz,
                 polls, inits, initOk, loading, toast, syncManager, peer>>

\* a faulty saveData that restores the cached document after a failed save
SaveFails_Rollback(data) ==
  /\ data \in saves
  /\ saves' = saves \ {data}
  /\ state' = IF localStorage # Null THEN localStorage ELSE getInitialData
  /\ localStorage' \in {data, localStorage}
  /\ UNCHANGED <<view, remote, lastDataHash, currentUserId, today,
                 selectedPayroll, selectedLeave, selectedTask, now, tz,
                 polls, inits, initOk, loading, toast, syncManager, peer>>

\* saveData(data) failing (network error, status not OK, success false): the
\* catch block caches the document unless localStorage.setItem throws again
SaveFails(data) ==
  /\ data \in saves
  /\ saves' = saves \ {data}
  /\ localStorage' \in {data, localStorage}
  /\ UNCHANGED <<state, view, remote, lastDataHash, currentUserId, today,
                 selectedPayroll, selectedLeave, selectedTask, now, tz,
                 polls, inits, initOk, loading, toast, syncManager, peer>>

\* server: POST /hrm/data or POST /hrm/reset of another browser
PostRoute(body) ==
  /\ remote' = StoredAfterPost(remote, body)
  /\ UNCHANGED <<state, view, saves, lastDataHash, currentUserId, today,
                 selectedPayroll, selectedLeave, selectedTask, now, tz,
                 polls, inits, initOk, localStorage, loading, toast,
                 syncManager, peer>>

\* a POST /hrm/init request on its way to the handler
InitRequest(client, data) == [client |-> client, data |-> data, checked |-> FALSE]

\* initializeBackendData of another browser that found the store empty
SendInit(client, data) ==
  /\ \A req \in inits : req.client # client
  /\ inits' = inits \cup {InitRequest(client, data)}
  /\ UNCHANGED <<state, view, saves, remote, lastDataHash, currentUserId, today,
                 selectedPayroll, selectedLeave, selectedTask, now, tz,
                 polls, initOk, localStorage, loading, toast,
                 syncManager, peer>>

\* server, POST /hrm/init: const existingData = await kv.get(..);
\* if (existingData) return { initialized: false }
InitCheck(req) ==
  /\ req \in inits
  /\ ~req.checked
  /\ inits' = IF remote # Null
              THEN inits \ {req}
              ELSE (inits \ {req}) \cup {[req EXCEPT !.checked = TRUE]}
  /\ UNCHANGED <<state, view, saves, remote, lastDataHash, currentUserId, today,
                 selectedPayroll, selectedLeave, selectedTask, now, tz,
                 polls, initOk, localStorage, loading, toast,
                 syncManager, peer>>

\* server, POST /hrm/init: await kv.set(..); return { initialized: true }
InitWrite(req) ==
  /\ req \in inits
  /\ req.checked
  /\ initOk < MaxInits
  /\ remote' = req.data
  /\ initOk' = initOk + 1
  /\ inits' = inits \ {req}
  /\ UNCHANGED <<state, view, saves, lastDataHash, currentUserId, today,
                 selectedPayroll, selectedLeave, selectedTask, now, tz,
                 polls, localStorage, loading, toast,
                 syncManager, peer>>

\* loadData's fallback: the cached document if there is one, else getInitialData()
CachedOrInitial == IF localStorage # Null THEN localStorage ELSE getInitialData

\* App.initializeData calling loadData: the GET succeeds or fails, and
\* localStorage.setItem returns or throws; on an empty store the init request
\* is sent and awaited
loadData(getOk, setItemOk) ==
  /\ loading = "get"
  /\ IF getOk /\ remote # Null
     THEN /\ state' = IF setItemOk THEN remote ELSE CachedOrInitial
          /\ localStorage' = IF setItemOk THEN remote ELSE localStorage
          /\ loading' = "done"
          /\ UNCHANGED inits
     ELSE IF getOk
     THEN /\ inits' = inits \cup {InitRequest("local", getInitialData)}
          /\ loading' = "init"
          /\ UNCHANGED <<state, localStorage,
                 syncManager, peer>>
     ELSE /\ state' = CachedOrInitial
          /\ loading' = "done"
          /\ UNCHANGED <<inits, localStorage,
                 syncManager, peer>>
  /\ view' = state'
  /\ saves' = IF loading' = "done" THEN saves \cup {state'} ELSE saves
  /\ syncManager' = IF loading' = "done"
                    THEN syncEffect(syncManager, currentUserId, FALSE)
                    ELSE syncManager
  /\ UNCHANGED peer
  /\ UNCHANGED <<remote, lastDataHash, currentUserId, today,
                 selectedPayroll, selectedLeave, selectedTask, now, tz,
                 polls, initOk, toast>>

\* loadData after initializeBackendData returned (its errors are caught):
\* return initialData; then setState(data), setIsLoading(false), the save effect
loadDataInitialized ==
  /\ loading = "init"
  /\ state' = getInitialData
  /\ view' = state'
  /\ saves' = saves \cup {state'}
  /\ loading' = "done"
  /\ syncManager' = syncEffect(syncManager, currentUserId, FALSE)
  /\ UNCHANGED peer
  /\ UNCHANGED <<remote, lastDataHash, currentUserId, today,
                 selectedPayroll, selectedLeave, selectedTask, now, tz,
                 polls, inits, initOk, localStorage, toast>>

\* SyncManager: the interval fires and the GET /hrm/data is answered or fails
PollRequest(ok) ==
  /\ syncManager.timers # {}
  /\ Cardinality(polls) < MaxPolls
  /\ polls' = polls \cup {[ok |-> ok, data |-> IF ok THEN remote ELSE Null]}
  /\ UNCHANGED <<state, view, saves, remote, lastDataHash, currentUserId, today,
                 selectedPayroll, selectedLeave, selectedTask, now, tz,
                 inits, initOk, localStorage, loading, toast,
                 syncManager, peer>>

\* a faulty interval callback that delivers every document it fetched
PollResponse_AlwaysDeliver(response) ==
  /\ response \in polls
  /\ polls' = polls \ {response}
  /\ IF response.ok /\ response.data # Null
     THEN /\ lastDataHash' = response.data
          /\ state' = response.data
     ELSE UNCHANGED <<state, lastDataHash>>
  /\ UNCHANGED <<view, saves, remote, currentUserId, today,
                 selectedPayroll, selectedLeave, selectedTask, now, tz,
                 inits, initOk, localStorage, loading, toast,
                 syncManager, peer>>

\* SyncManager: the rest of the interval callback, once the response is there:
\* if (result.data) { if (dataHash !== this.lastDataHash) { .. callback(result.data) } }
PollResponse(response) ==
  /\ response \in polls
  /\ polls' = polls \ {response}
  /\ IF response.ok /\ response.data # Null /\ response.data # lastDataHash
     THEN /\ lastDataHash' = response.data
          /\ state' = response.data
     ELSE UNCHANGED <<state, lastDataHash>>
  /\ UNCHANGED <<view, saves, remote, currentUserId, today,
                 selectedPayroll, selectedLeave, selectedTask, now, tz,
                 inits, initOk, localStorage, loading, toast,
                 syncManager, peer>>

\* SyncManager: one tick of the interval, with App's callback setState(updatedData)
PollTick ==
  /\ syncManager.timers # {}
  /\ remote # Null
  /\ remote # lastDataHash
  /\ lastDataHash' = remote
  /\ state' = remote
  /\ UNCHANGED <<view, saves, remote, currentUserId, today,
                 selectedPayroll, selectedLeave, selectedTask, now, tz,
                 polls, inits, initOk, localStorage, loading, toast,
                 syncManager, peer>>

\* time passes
StartNow == ParseDate(FirstDayOf(2)) + 12 * MsPerHour

Tick(limit) ==
  /\ now < StartNow + limit * MsPerHour
  /\ now' = now + MsPerHour
  /\ UNCHANGED <<state, view, saves, remote, lastDataHash, currentUserId, today,
                 selectedPayroll, selectedLeave, selectedTask, toast>>
  /\ UNCHANGED <<tz, polls, inits, initOk, localStorage, loading,
                 syncManager, peer>>

----------------------------------------------------------------------------
(* The admin's session: the document loadData returned holds the time logs  *)
(* the employees recorded in month 1 and around it                          *)

TimeLog(n, employeeId, date, hours) ==
  [id |-> <<"log", ParseDate(date) + 12 * MsPerHour + n>>,
   employeeId |-> employeeId,
   date |-> date,
   checkIn |-> ParseDate(date) + 12 * MsPerHour + n,
   checkOut |-> ParseDate(date) + (12 + hours) * MsPerHour + n,
   breaks |-> <<>>,
   totalHours |-> hours,
   status |-> "checked-out"]

OpenTimeLog(n, employeeId, date) ==
  [id |-> <<"log", ParseDate(date) + 12 * MsPerHour + n>>,
   employeeId |-> employeeId,
   date |-> date,
   checkIn |-> ParseDate(date) + 12 * MsPerHour + n,
   checkOut |-> NoTime,
   breaks |-> <<>>,
   totalHours |-> 0,
   status |-> "checked-in"]

\* month 0 ends with day DaysPerMonth - 1; month 1 is days DaysPerMonth .. 2 * DaysPerMonth - 1
Ledger ==
  << TimeLog(1, Emp7.id, FirstDayOf(1) - 1, 20),
     TimeLog(2, Emp7.id, FirstDayOf(1), 50),
     TimeLog(3, Emp1.id, FirstDayOf(1) + 1, 50),
     OpenTimeLog(4, Emp7.id, FirstDayOf(1) + 2),
     TimeLog(5, Emp7.id, FirstDayOf(2) - 1, 30),
     TimeLog(6, Emp7.id, FirstDayOf(2), 10) >>

Task(n, employeeId, date) ==
  [id |-> <<"task", ParseDate(date) + 9 * MsPerHour + n>>,
   employeeId |-> employeeId,
   date |-> date,
   description |-> "report",
   hoursSpent |-> 2,
   status |-> "pending"]

LeaveRequest(n, employeeId, startDate, endDate) ==
  [id |-> <<"leave", ParseDate(startDate) - MsPerDay + n>>,
   employeeId |-> employeeId,
   startDate |-> startDate,
   endDate |-> endDate,
   reason |-> "rest",
   status |-> "pending",
   requestedAt |-> ParseDate(startDate) - MsPerDay + n]

\* the tasks and the leave requests the employees recorded in month 1
TaskLedger ==
  << Task(1, Emp7.id, FirstDayOf(1)),
     Task(2, Emp1.id, FirstDayOf(1) + 1) >>

LeaveLedger ==
  << LeaveRequest(1, Emp1.id, FirstDayOf(1) + 5, FirstDayOf(1) + 5),
     LeaveRequest(2, Emp7.id, FirstDayOf(1) + 6, FirstDayOf(1) + 7) >>

\* the document the admin's session starts from: emp7 has used the comp leave
LoadedDoc ==
  [getInitialData EXCEPT
     !.timeLogs = Ledger,
     !.tasks = TaskLedger,
     !.leaveRequests = LeaveLedger,
     !.employees = <<Emp1, [Emp7 EXCEPT !.compLeavesUsed = 1]>>]

\* what the admin enters in the forms
NewEmployees ==
  { [role |-> "employee", managerId |-> NoId,
     monthlyHourTarget |-> 100, hourlyRate |-> 5000,
     compLeavesEarned |-> 0, compLeavesUsed |-> 0] }

EmployeeUpdates ==
  { [hourlyRate |-> 6000, monthlyHourTarget |-> 40] }

Multipliers == {100, 150}

EditValues ==
  { <<>>,
    [regularHours |-> 20],
    [regularHours |-> 20, overtimeHours |-> 10],
    [status |-> "paid", notes |-> "ok"] }

SeqRange(s) == {s[i] : i \in 1..Len(s)}

Init ==
  /\ state = LoadedDoc
  /\ view = state
  /\ saves = {}
  /\ remote = state
  /\ lastDataHash = Null
  /\ currentUserId = Emp1.id
  /\ selectedPayroll = Null
  /\ selectedLeave = Null
  /\ selectedTask = Null
  /\ now = StartNow
  /\ tz \in TZOffsets
  /\ polls = {}
  /\ inits = {}
  /\ initOk = 0
  /\ localStorage = Null
  /\ loading = "done"
  /\ syncManager = IF currentUserId # NoId /\ loading = "done" THEN Started ELSE Stopped
  /\ peer = NoBrowser
  /\ today = FormatDay(StartNow)
  /\ toast = Toast("none", "")

ProcessPayroll == \E month \in Months : handleProcessPayroll(month)
SelectPayroll == \E entry \in SeqRange(view.payrollEntries) : selectPayroll(entry)
UpdatePayroll == \E editValues \in EditValues : handleUpdatePayroll(editValues)
CreateEmployee == \E newEmployee \in NewEmployees : handleCreateEmployee(newEmployee)
UpdateEmployee ==
  \E emp \in SeqRange(view.employees), updates \in EmployeeUpdates :
    handleUpdateEmployee(emp.id, updates)
DeleteEmployee == \E emp \in SeqRange(view.employees) : handleDeleteEmployee(emp.id)
GrantCompLeave == \E emp \in SeqRange(view.employees) : handleGrantCompLeave(emp.id, 1)
UpdateOvertimeSettings ==
  \E emp \in SeqRange(view.employees), multiplier \in Multipliers :
    handleUpdateOvertimeSettings(emp.id, multiplier)
Login == \E employee \in SeqRange(view.employees) : handleLogin(employee)
Server == \E data \in saves : PostData(data)

\* the admin on the Payroll and Employees tabs
NextPayroll ==
  \/ ProcessPayroll
  \/ CreateEmployee
  \/ DeleteEmployee
  \/ GrantCompLeave
  \/ UpdateEmployee
  \/ UpdateOvertimeSettings
  \/ Render
  \/ Tick(MaxTicks)

SpecPayroll == Init /\ [][NextPayroll]_vars

\* the admin editing payroll entries, rates and multipliers
NextPayrollEdit ==
  \/ ProcessPayroll
  \/ SelectPayroll
  \/ closePayrollDialog
  \/ UpdatePayroll
  \/ UpdateEmployee
  \/ UpdateOvertimeSettings
  \/ Render
  \/ Tick(MaxTicks)

SpecPayrollEdit == Init /\ [][NextPayrollEdit]_vars

----------------------------------------------------------------------------
(* An employee's day: the session starts at the login screen, on a document *)
(* without time logs                                                        *)

\* what the employee enters in TaskLogger (description.trim() && hours > 0)
\* what the employee enters in the task form: description, hours
TaskInputs == { <<"report", 2>>, <<" ", 2>>, <<"report", 0>> }

InitTime ==
  /\ state = getInitialData
  /\ view = state
  /\ saves = {}
  /\ remote = state
  /\ lastDataHash = Null
  /\ currentUserId = NoId
  /\ selectedPayroll = Null
  /\ selectedLeave = Null
  /\ selectedTask = Null
  /\ now = StartNow
  /\ tz \in TZOffsets
  /\ polls = {}
  /\ inits = {}
  /\ initOk = 0
  /\ localStorage = Null
  /\ loading = "done"
  /\ syncManager = IF currentUserId # NoId /\ loading = "done" THEN Started ELSE Stopped
  /\ peer = NoBrowser
  /\ today = FormatDay(StartNow)
  /\ toast = Toast("none", "")

\* TaskLogger.handleSubmit: description.trim() && hours && parseFloat(hours) > 0
AddTask ==
  \E input \in TaskInputs :
    IF Trim(input[1]) # "" /\ input[2] > 0
    THEN handleAddTask(Trim(input[1]), input[2])
    ELSE UNCHANGED vars
\* TaskLogger shows the delete button on the pending tasks it renders
DeleteTask ==
  \E i \in 1..Len(myTasks) :
    myTasks[i].status = "pending" /\ handleDeleteTask(myTasks[i].id)

NextTime ==
  \/ Login
  \/ handleCheckIn
  \/ handleCheckOut
  \/ handleBreakIn
  \/ handleBreakOut
  \/ AddTask
  \/ DeleteTask
  \/ Render
  \/ Tick(MaxTimeTicks)

SpecTime == InitTime /\ [][NextTime]_vars

----------------------------------------------------------------------------
(* A team's session on one browser: the employee emp7 and the manager emp5  *)
(* log in in turn on the document getInitialData seeds for them              *)

TeamDoc ==
  [getInitialData EXCEPT
     !.employees = <<Emp5, Emp7>>,
     !.overtimeSettings = InitialOvertimeSettings(<<Emp5, Emp7>>)]

\* what the employee enters in the leave form: start day, end day, reason
LeaveInputs ==
  { <<FirstDayOf(3), FirstDayOf(3), "rest">>,
    <<FirstDayOf(3), FirstDayOf(3) + 2, "rest">>,
    <<FirstDayOf(3) + 2, FirstDayOf(3), "rest">>,
    <<FirstDayOf(3), FirstDayOf(3), " ">> }

InitLeave ==
  /\ state = TeamDoc
  /\ view = state
  /\ saves = {}
  /\ remote = state
  /\ lastDataHash = Null
  /\ currentUserId = NoId
  /\ selectedPayroll = Null
  /\ selectedLeave = Null
  /\ selectedTask = Null
  /\ now = StartNow
  /\ tz \in TZOffsets
  /\ polls = {}
  /\ inits = {}
  /\ initOk = 0
  /\ localStorage = Null
  /\ loading = "done"
  /\ syncManager = IF currentUserId # NoId /\ loading = "done" THEN Started ELSE Stopped
  /\ peer = NoBrowser
  /\ today = FormatDay(StartNow)
  /\ toast = Null

SubmitLeave == \E input \in LeaveInputs : handleSubmit(input[1], input[2], input[3])
SelectLeave ==
  /\ ViewShown = "manager"
  /\ \E request \in SeqRange(teamLeaveRequests) : selectLeave(request)
DecideLeave ==
  /\ selectedLeave # Null
  /\ \E approved \in BOOLEAN : handleApproveLeave(selectedLeave.id, approved, "")
ManagerGrantCompLeave ==
  /\ ViewShown = "manager"
  /\ \E member \in SeqRange(teamMembers) : ManagerView_handleGrantCompLeave(member.id, 1)

NextLeave ==
  \/ Login
  \/ handleLogout
  \/ SubmitLeave
  \/ SelectLeave
  \/ closeLeaveDialog
  \/ DecideLeave
  \/ ManagerGrantCompLeave
  \/ Render
  \/ Tick(MaxTicks)

SpecLeave == InitLeave /\ [][NextLeave]_vars

----------------------------------------------------------------------------
(* The manager emp5 reviewing the tasks the team logged *)

\* two tasks of the last three days and one older than that
ReviewDoc ==
  [TeamDoc EXCEPT
     !.tasks = << Task(0, Emp7.id, FirstDayOf(2)),
                  Task(1, Emp7.id, FirstDayOf(2) - 1),
                  Task(2, Emp7.id, FirstDayOf(2) - 5) >>]

\* what the manager types in the comment box
Comments == {" ", "redo"}

InitReview ==
  /\ state = ReviewDoc
  /\ view = state
  /\ saves = {}
  /\ remote = state
  /\ lastDataHash = Null
  /\ currentUserId = Emp5.id
  /\ selectedPayroll = Null
  /\ selectedLeave = Null
  /\ selectedTask = Null
  /\ now = StartNow
  /\ tz \in TZOffsets
  /\ polls = {}
  /\ inits = {}
  /\ initOk = 0
  /\ localStorage = Null
  /\ loading = "done"
  /\ syncManager = IF currentUserId # NoId /\ loading = "done" THEN Started ELSE Stopped
  /\ peer = NoBrowser
  /\ today = FormatDay(StartNow)
  /\ toast = Null

ApproveTask == \E task \in SeqRange(teamTasks) : approveRow(task)
SelectTask == \E task \in SeqRange(teamTasks) : selectTask(task)
SubmitComment == \E comment \in Comments : handleSubmitComment(comment)
ApproveWithComment == \E comment \in Comments : approveWithComment(comment)

NextReview ==
  \/ ApproveTask
  \/ SelectTask
  \/ closeTaskDialog
  \/ SubmitComment
  \/ ApproveWithComment
  \/ Render
  \/ Tick(MaxTimeTicks)

SpecReview == InitReview /\ [][NextReview]_vars

----------------------------------------------------------------------------
(* The employee emp7 on one browser, the manager emp5 on another, and the   *)
(* server document between them                                             *)

InitSync ==
  /\ state = TeamDoc
  /\ view = state
  /\ saves = {}
  /\ remote = state
  /\ lastDataHash = Null
  /\ currentUserId = Emp7.id
  /\ selectedPayroll = Null
  /\ selectedLeave = Null
  /\ selectedTask = Null
  /\ now = StartNow
  /\ tz \in TZOffsets
  /\ polls = {}
  /\ inits = {}
  /\ initOk = 0
  /\ localStorage = Null
  /\ loading = "done"
  /\ syncManager = IF currentUserId # NoId /\ loading = "done" THEN Started ELSE Stopped
  /\ peer = NoBrowser
  /\ today = FormatDay(StartNow)
  /\ toast = Null

\* the manager's browser: handleApproveTask or handleCommentTask on the
\* document it loaded, saved to the server by its auto-save effect
OtherClientReview ==
  \E i \in 1..Len(remote.tasks), status \in {"approved", "commented"} :
    /\ remote.tasks[i].status = "pending"
    /\ Len(remote.auditLogs) < MaxSyncAudit
    /\ remote' = ReviewedState(remote, remote.tasks[i].id, status,
                               IF status = "commented" THEN "redo" ELSE "",
                               Emp5.id, now,
                               [id |-> <<"audit", now>>, timestamp |-> now,
                                userId |-> Emp5.id,
                                action |-> IF status = "approved" THEN "Task Approved"
                                           ELSE "Task Reviewed",
                                entityType |-> "Task",
                                entityId |-> remote.tasks[i].id])
    /\ UNCHANGED <<state, view, saves, lastDataHash, currentUserId, today,
                   selectedPayroll, selectedLeave, selectedTask, now, tz,
                 polls, inits, initOk, localStorage, loading, toast,
                 syncManager, peer>>

\* room left for one more audit entry in the shared document (bound)
CanAuditSync == Len(state.auditLogs) < MaxSyncAudit

SyncAddTask == CanAuditSync /\ AddTask
SyncDeleteTask == CanAuditSync /\ DeleteTask

\* the auto-save of a render is posted before the next render (bound)
SyncRender == Cardinality(saves) < MaxSaves /\ Render

NextSync ==
  \/ SyncAddTask
  \/ SyncDeleteTask
  \/ OtherClientReview
  \/ Server
  \/ PollTick
  \/ SyncRender
  \/ Tick(MaxTicks)

SpecSync == InitSync /\ [][NextSync]_vars

----------------------------------------------------------------------------
(* A browser from its first load on, the server's store, and the requests   *)
(* of another browser                                                       *)

\* the request bodies another browser posts to /hrm/data and /hrm/reset: its
\* document, and a body without a data field
OtherBodies ==
  { [data |-> LoadedDoc], [payload |-> LoadedDoc] }

\* what localStorage holds from an earlier session
CachedDocs == {Null, LoadedDoc}

InitStore ==
  /\ state = getInitialData
  /\ view = state
  /\ saves = {}
  /\ remote = Null
  /\ lastDataHash = Null
  /\ currentUserId = NoId
  /\ selectedPayroll = Null
  /\ selectedLeave = Null
  /\ selectedTask = Null
  /\ now = StartNow
  /\ tz = 0
  /\ polls = {}
  /\ inits = {}
  /\ initOk = 0
  /\ localStorage \in CachedDocs
  /\ loading = "get"
  /\ syncManager = IF currentUserId # NoId /\ loading = "done" THEN Started ELSE Stopped
  /\ peer = NoBrowser
  /\ today = FormatDay(StartNow)
  /\ toast = Null

LoadData == \E getOk \in BOOLEAN, setItemOk \in BOOLEAN : loadData(getOk, setItemOk)
OtherInit == SendInit("other", getInitialData)
CheckInit == \E req \in inits : InitCheck(req)
WriteInit == \E req \in inits : InitWrite(req)
OtherPost == \E body \in OtherBodies : PostRoute(body)
SaveFailure == \E data \in saves : SaveFails(data)
PollSend == \E ok \in BOOLEAN : PollRequest(ok)
PollDeliver == \E response \in polls : PollResponse(response)
\* the local mutation of the session, while the audit log has room (bound)
StoreCheckIn == Len(state.auditLogs) < MaxStoreAudit /\ handleCheckIn

NextStore ==
  \/ LoadData
  \/ loadDataInitialized
  \/ OtherInit
  \/ CheckInit
  \/ WriteInit
  \/ OtherPost
  \/ Server
  \/ SaveFailure
  \/ Login
  \/ handleLogout
  \/ StoreCheckIn
  \/ SyncRender
  \/ PollSend
  \/ PollDeliver

SpecStore == InitStore /\ [][NextStore]_vars

----------------------------------------------------------------------------
(* One browser shared by the admin emp1, the manager emp5 and the employee  *)
(* emp7: the admin edits roles, the others log in in turn                   *)

\* a pending task and a pending leave request of emp7 (team of emp5) and of
\* emp5 (whose managerId is the admin emp1)
RolesDoc ==
  [getInitialData EXCEPT
     !.employees = <<Emp1, Emp5, Emp7>>,
     !.overtimeSettings = InitialOvertimeSettings(<<Emp1, Emp5, Emp7>>),
     !.tasks = << Task(0, Emp7.id, FirstDayOf(2)),
                  Task(1, Emp5.id, FirstDayOf(2)) >>,
     !.leaveRequests = << LeaveRequest(0, Emp7.id, FirstDayOf(3), FirstDayOf(3)),
                          LeaveRequest(1, Emp5.id, FirstDayOf(3), FirstDayOf(3)) >>]

\* the Role select of the employee form
RoleUpdates == { [role |-> "employee"], [role |-> "manager"] }

InitRoles ==
  /\ state = RolesDoc
  /\ view = state
  /\ saves = {}
  /\ remote = state
  /\ lastDataHash = Null
  /\ currentUserId = NoId
  /\ selectedPayroll = Null
  /\ selectedLeave = Null
  /\ selectedTask = Null
  /\ now = StartNow
  /\ tz = 0
  /\ polls = {}
  /\ inits = {}
  /\ initOk = 0
  /\ localStorage = Null
  /\ loading = "done"
  /\ syncManager = IF currentUserId # NoId /\ loading = "done" THEN Started ELSE Stopped
  /\ peer = NoBrowser
  /\ today = FormatDay(StartNow)
  /\ toast = Null

ChangeRole ==
  \E emp \in SeqRange(view.employees), updates \in RoleUpdates :
    handleUpdateEmployee(emp.id, updates)
TeamApproveTask == ViewShown = "manager" /\ ApproveTask
TeamSelectTask == ViewShown = "manager" /\ SelectTask

NextRoles ==
  \/ Login
  \/ handleLogout
  \/ ChangeRole
  \/ TeamApproveTask
  \/ TeamSelectTask
  \/ SubmitComment
  \/ SelectLeave
  \/ DecideLeave
  \/ Render

SpecRoles == InitRoles /\ [][NextRoles]_vars

----------------------------------------------------------------------------
(* The sync manager under any sequence of start and stop calls, while       *)
(* another browser writes the server document                               *)

InitManager ==
  /\ state = getInitialData
  /\ view = state
  /\ saves = {}
  /\ remote = Null
  /\ lastDataHash = Null
  /\ currentUserId = NoId
  /\ selectedPayroll = Null
  /\ selectedLeave = Null
  /\ selectedTask = Null
  /\ now = StartNow
  /\ tz = 0
  /\ polls = {}
  /\ inits = {}
  /\ initOk = 0
  /\ localStorage \in CachedDocs
  /\ loading = "done"
  /\ syncManager = Stopped
  /\ peer = NoBrowser
  /\ today = FormatDay(StartNow)
  /\ toast = Null

\* syncManager.start(callback) and syncManager.stop() called by a client
StartSync ==
  /\ syncManager' = start(syncManager)
  /\ UNCHANGED peer
  /\ UNCHANGED <<state, view, saves, remote, lastDataHash, currentUserId, today,
                 selectedPayroll, selectedLeave, selectedTask, now, tz, toast,
                 polls, inits, initOk, localStorage, loading>>

StopSync ==
  /\ syncManager' = stop(syncManager)
  /\ UNCHANGED peer
  /\ UNCHANGED <<state, view, saves, remote, lastDataHash, currentUserId, today,
                 selectedPayroll, selectedLeave, selectedTask, now, tz, toast,
                 polls, inits, initOk, localStorage, loading>>

NextManager ==
  \/ StartSync
  \/ StopSync
  \/ PollSend
  \/ PollDeliver
  \/ OtherPost
  \/ OtherInit
  \/ CheckInit
  \/ WriteInit
  \/ SyncRender
  \/ Server
  \/ SaveFailure

SpecManager == InitManager /\ [][NextManager]_vars

----------------------------------------------------------------------------
(* Two browsers on one server document, emp7 on this one and the manager    *)
(* emp5 on the second, from the moment each has made its last change        *)

\* the document both browsers loaded: the team and one pending task of emp7
SharedDoc ==
  [TeamDoc EXCEPT !.tasks = << Task(0, Emp7.id, FirstDayOf(2)) >>]

\* SharedDoc after emp7's handleCheckIn at StartNow
CheckedInDoc ==
  [SharedDoc EXCEPT
     !.timeLogs = Append(@, OpenTimeLog(0, Emp7.id, FirstDayOf(2))),
     !.auditLogs = Append(@,
        [id |-> <<"audit", StartNow>>, timestamp |-> StartNow, userId |-> Emp7.id,
         action |-> "Check In", entityType |-> "TimeLog",
         entityId |-> OpenTimeLog(0, Emp7.id, FirstDayOf(2)).id])]

\* SharedDoc after emp5's handleApproveTask at StartNow
ReviewedDoc ==
  ReviewedState(SharedDoc, SharedDoc.tasks[1].id, "approved", "", Emp5.id, StartNow,
                [id |-> <<"audit", StartNow>>, timestamp |-> StartNow,
                 userId |-> Emp5.id, action |-> "Task Approved",
                 entityType |-> "Task", entityId |-> SharedDoc.tasks[1].id])

ConvergeDocs == {SharedDoc, CheckedInDoc, ReviewedDoc}

\* the save of the loaded document is still on its way, or has arrived
LoadSaves == { {}, {SharedDoc} }

InitConverge ==
  /\ state = CheckedInDoc
  /\ view = SharedDoc
  /\ saves \in LoadSaves
  /\ remote = SharedDoc
  /\ lastDataHash = Null
  /\ currentUserId = Emp7.id
  /\ selectedPayroll = Null
  /\ selectedLeave = Null
  /\ selectedTask = Null
  /\ now = StartNow
  /\ tz = 0
  /\ polls = {}
  /\ inits = {}
  /\ initOk = 0
  /\ localStorage = Null
  /\ loading = "done"
  /\ syncManager = Started
  /\ peer \in { [state |-> ReviewedDoc, view |-> SharedDoc, saves |-> sv,
                 lastDataHash |-> Null] : sv \in LoadSaves }
  /\ today = FormatDay(StartNow)
  /\ toast = Toast("success", "Checked in successfully")

\* the second browser runs the same App: the render with its save effect, the
\* save reaching the server, and a tick of its sync manager
PeerRender ==
  /\ peer.view # peer.state
  /\ peer' = [peer EXCEPT !.view = peer.state, !.saves = @ \cup {peer.state}]
  /\ UNCHANGED <<state, view, saves, remote, lastDataHash, currentUserId, today,
                 selectedPayroll, selectedLeave, selectedTask, now, tz, toast,
                 polls, inits, initOk, localStorage, loading, syncManager>>

PeerPostData(data) ==
  /\ data \in peer.saves
  /\ peer' = [peer EXCEPT !.saves = @ \ {data}]
  /\ remote' = StoredAfterPost(remote, [data |-> data])
  /\ UNCHANGED <<state, view, saves, lastDataHash, currentUserId, today,
                 selectedPayroll, selectedLeave, selectedTask, now, tz, toast,
                 polls, inits, initOk, localStorage, loading, syncManager>>

PeerPollTick ==
  /\ remote # Null
  /\ remote # peer.lastDataHash
  /\ peer' = [peer EXCEPT !.lastDataHash = remote, !.state = remote]
  /\ UNCHANGED <<state, view, saves, remote, lastDataHash, currentUserId, today,
                 selectedPayroll, selectedLeave, selectedTask, now, tz, toast,
                 polls, inits, initOk, localStorage, loading, syncManager>>

PeerServer == \E data \in peer.saves : PeerPostData(data)

NextConverge ==
  \/ Render
  \/ Server
  \/ PollTick
  \/ PeerRender
  \/ PeerServer
  \/ PeerPollTick

\* every render happens, every save posted arrives, and the polls keep ticking
FairConverge ==
  /\ SF_vars(Render)
  /\ SF_vars(PeerRender)
  /\ SF_vars(PollTick)
  /\ SF_vars(PeerPollTick)
  /\ \A data \in ConvergeDocs : SF_vars(PostData(data)) /\ SF_vars(PeerPostData(data))

SpecConverge == InitConverge /\ [][NextConverge]_vars /\ FairConverge

----------------------------------------------------------------------------
(* Properties of the Payroll Engine *)

\* the positions of the entries a step appended to state.payrollEntries
NewEntryIndexes == (Len(state.payrollEntries) + 1)..Len(state'.payrollEntries)

\* the number of entries for one employee and month
CountFor(entries, employeeId, month) ==
  Cardinality({i \in 1..Len(entries) :
                 entries[i].employeeId = employeeId /\ entries[i].month = month})

\* the multiplier of an employee's OvertimeSettings record, 1.0 without one
SettingsMultiplier(settings, employeeId) ==
  IF \E i \in 1..Len(settings) : settings[i].employeeId = employeeId
  THEN settings[CHOOSE i \in 1..Len(settings) :
                  /\ settings[i].employeeId = employeeId
                  /\ \A j \in 1..(i - 1) : settings[j].employeeId # employeeId
               ].overtimeMultiplier
  ELSE 100

\* the hours of an employee's checked-out time logs dated in a calendar month
HoursInMonth(logs, employeeId, month) ==
  SumSeq(Map(SelectSeq(logs, LAMBDA log :
                /\ log.employeeId = employeeId
                /\ log.date \div DaysPerMonth = month
                /\ log.checkOut # NoTime),
             LAMBDA log : log.totalHours))

\* C1: state.payrollEntries never holds two entries for the same employee
\* and month.
C1_OneEntryPerEmployeeMonth ==
  \A i, j \in 1..Len(state.payrollEntries) :
    i # j => ~(/\ state.payrollEntries[i].employeeId = state.payrollEntries[j].employeeId
               /\ state.payrollEntries[i].month = state.payrollEntries[j].month)

\* C2: a processMonth(m) applied directly after a processMonth(m) (the last
\* audit entry records it) adds no payroll entry, changes none, appends no
\* audit entry and is reported as an error.
C2_SecondProcessMonthIsNoOp ==
  [][\A m \in Months :
       (/\ handleProcessPayroll(m)
        /\ Len(state.auditLogs) > 0
        /\ state.auditLogs[Len(state.auditLogs)].action = "Payroll Processed"
        /\ state.auditLogs[Len(state.auditLogs)].entityId = <<"month", m>>)
       => (/\ state'.payrollEntries = state.payrollEntries
           /\ state'.auditLogs = state.auditLogs
           /\ toast'.level = "error")]_vars

\* C3: every entry processMonth(m) emits has regularHours = min(totalHours,
\* target) and overtimeHours = totalHours - target when totalHours > target
\* and compLeavesEarned - compLeavesUsed <= 0, else 0, for the employee record
\* and the totalHours the call read; the call leaves the employees, and so
\* their comp-leave counters, unchanged.
C3_HourSplit ==
  [][\A m \in Months :
       (state' # state /\ handleProcessPayroll(m))
       => (/\ state'.employees = state.employees
           /\ \A k \in NewEntryIndexes :
                \E emp \in SeqRange(view.employees) :
                  LET e == state'.payrollEntries[k]
                      T == totalHours(emp, m)
                      target == emp.monthlyHourTarget
                  IN /\ emp.id = e.employeeId
                     /\ e.regularHours = (IF T < target THEN T ELSE target)
                     /\ e.overtimeHours =
                          (IF T > target /\ emp.compLeavesEarned - emp.compLeavesUsed <= 0
                           THEN T - target ELSE 0))]_vars

\* C3 happens: payroll was processed, one entry pays overtime, and emp1's
\* entry (50 hours against a target lowered to 40, comp leave available) has
\* its overtime withheld.
C3_Witness ==
  /\ toast.text = "Payroll processed"
  /\ \E e1, e2 \in SeqRange(state.payrollEntries) :
       /\ e1.overtimeHours > 0
       /\ e2.employeeId = Emp1.id
       /\ e2.regularHours = 40
       /\ e2.overtimeHours = 0

\* C4: every entry processMonth(m) emits has regularPay = regularHours *
\* hourlyRate, overtimePay = overtimeHours * hourlyRate * multiplier and
\* totalPay = regularPay + overtimePay, the multiplier being the one of the
\* employee's OvertimeSettings record, 1.0 without a record.
C4_Pay ==
  [][\A m \in Months :
       (state' # state /\ handleProcessPayroll(m))
       => \A k \in NewEntryIndexes :
            \E emp \in SeqRange(view.employees) :
              LET e == state'.payrollEntries[k]
                  multiplier == SettingsMultiplier(view.overtimeSettings, emp.id)
              IN /\ emp.id = e.employeeId
                 /\ e.regularPay = e.regularHours * emp.hourlyRate
                 /\ e.overtimePay * 100 = e.overtimeHours * emp.hourlyRate * multiplier
                 /\ e.totalPay = e.regularPay + e.overtimePay]_vars

\* C4 happens: an entry pays emp7's overtime at the multiplier 1.5 set in the
\* overtime settings.
C4_Witness ==
  \E e \in SeqRange(state.payrollEntries) :
    /\ e.employeeId = Emp7.id
    /\ e.overtimeHours > 0
    /\ e.overtimePay * 100 = e.overtimeHours * Emp7.hourlyRate * 150
    /\ e.totalPay = e.regularPay + e.overtimePay

\* C5: the hours processMonth(m) accounts for an employee are those of
\* exactly the employee's checked-out time logs dated in month m: regularHours
\* is their sum capped at the target and, when overtime is paid, regularHours
\* + overtimeHours is their sum.
C5_HoursOfTheMonth ==
  [][\A m \in Months :
       (state' # state /\ handleProcessPayroll(m))
       => \A k \in NewEntryIndexes :
            \E emp \in SeqRange(view.employees) :
              LET e == state'.payrollEntries[k]
                  T == HoursInMonth(view.timeLogs, emp.id, m)
              IN /\ emp.id = e.employeeId
                 /\ e.regularHours = Min(T, emp.monthlyHourTarget)
                 /\ (emp.compLeavesEarned - emp.compLeavesUsed <= 0
                       => e.regularHours + e.overtimeHours = T)]_vars

\* C6: a processMonth(m) that changes the store emits exactly one entry for
\* each employee of the store without an entry for m and none for the others,
\* every new entry pending and processed by the acting admin; afterwards every
\* employee of the store has exactly one entry for m.
C6_OneEntryPerEmployee ==
  [][\A m \in Months :
       (state' # state /\ handleProcessPayroll(m))
       => (/\ \A i \in 1..Len(state.employees) :
                CountFor(SubSeq(state'.payrollEntries,
                                Len(state.payrollEntries) + 1,
                                Len(state'.payrollEntries)),
                         state.employees[i].id, m)
                  = (IF HasPayroll(state.payrollEntries, state.employees[i].id, m)
                     THEN 0 ELSE 1)
           /\ \A k \in NewEntryIndexes :
                /\ state'.payrollEntries[k].status = "pending"
                /\ state'.payrollEntries[k].processedBy = currentUserId
           /\ \A i \in 1..Len(state'.employees) :
                CountFor(state'.payrollEntries, state'.employees[i].id, m) = 1)]_vars

\* C7: an updatePayrollEntry that edits hours stores the edited hours and
\* sets regularPay = regularHours * hourlyRate, overtimePay = overtimeHours *
\* hourlyRate * multiplier and totalPay = regularPay + overtimePay, from the
\* hours of the edit (an hours field left untouched keeps the value of the
\* entry being edited) and the rate and multiplier the edit reads.
C7_EditRecomputesPay ==
  [][\A ev \in EditValues :
       (/\ state' # state
        /\ {"regularHours", "overtimeHours"} \cap DOMAIN ev # {}
        /\ handleUpdatePayroll(ev))
       => \A i \in 1..Len(state.payrollEntries) :
            state.payrollEntries[i].id = selectedPayroll.id
            => \E emp \in SeqRange(view.employees) :
                 LET e == state'.payrollEntries[i]
                     regularHours == IF "regularHours" \in DOMAIN ev
                                     THEN ev.regularHours
                                     ELSE selectedPayroll.regularHours
                     overtimeHours == IF "overtimeHours" \in DOMAIN ev
                                      THEN ev.overtimeHours
                                      ELSE selectedPayroll.overtimeHours
                     multiplier == SettingsMultiplier(view.overtimeSettings, emp.id)
                 IN /\ emp.id = selectedPayroll.employeeId
                    /\ "regularHours" \in DOMAIN ev => e.regularHours = regularHours
                    /\ "overtimeHours" \in DOMAIN ev => e.overtimeHours = overtimeHours
                    /\ e.regularPay = regularHours * emp.hourlyRate
                    /\ e.overtimePay * 100 = overtimeHours * emp.hourlyRate * multiplier
                    /\ e.totalPay = e.regularPay + e.overtimePay]_vars

\* C7 happens: an entry was edited to 20 regular hours after its employee's
\* rate was changed to 6000, and is paid 20 * 6000.
C7_Witness ==
  /\ toast.text = "Payroll updated"
  /\ \E e \in SeqRange(state.payrollEntries) :
       /\ e.regularHours = 20
       /\ e.regularPay = 20 * 6000
       /\ e.totalPay = e.regularPay + e.overtimePay
       /\ \E emp \in SeqRange(state.employees) :
            emp.id = e.employeeId /\ emp.hourlyRate = 6000

----------------------------------------------------------------------------
(* Properties of the Time Ledger *)

\* the net hours of a stored entry checked out at checkOutTime: check-out
\* minus check-in minus its breaks, an open break running to check-out
NetHours(timeLog, checkOutTime) ==
  LET breakMs == [i \in 1..Len(timeLog.breaks) |->
                    (IF timeLog.breaks[i].breakOut # NoTime
                     THEN timeLog.breaks[i].breakOut ELSE checkOutTime)
                      - timeLog.breaks[i].breakIn]
      net == (checkOutTime - timeLog.checkIn - SumSeq(breakMs)) \div MsPerHour
  IN IF net > 0 THEN net ELSE 0

\* C8: the totalHours a checkOut stores in an entry is max(0, (checkOut -
\* checkIn) - the breaks recorded in that stored entry when the check-out is
\* applied), an open break counted up to the check-out time.
C8_TotalHoursFromStoredBreaks ==
  [][(state' # state /\ handleCheckOut)
     => \A i \in 1..Len(state.timeLogs) :
          state.timeLogs[i].id = todayTimeLog.id
          => state'.timeLogs[i].totalHours = NetHours(state.timeLogs[i], now)]_vars

\* the employee's stored tasks / stored open entries of the day
StoredTasksToday ==
  SelectSeq(state.tasks,
            LAMBDA t : t.employeeId = currentUserId /\ t.date = today)

\* C9: a checkOut issued while the store holds no task of the employee for
\* the day changes no time log and appends no audit entry; with a task in the
\* store, it checks out the employee's open entry of the day.
C9_CheckOutNeedsTask ==
  [][handleCheckOut
     => (/\ Len(StoredTasksToday) = 0
              => (/\ state'.timeLogs = state.timeLogs
                  /\ state'.auditLogs = state.auditLogs)
         /\ Len(StoredTasksToday) > 0
              => \A i \in 1..Len(state.timeLogs) :
                   (/\ state.timeLogs[i].employeeId = currentUserId
                    /\ state.timeLogs[i].date = today
                    /\ state.timeLogs[i].checkOut = NoTime)
                   => (/\ state'.timeLogs[i].checkOut = now
                       /\ state'.timeLogs[i].status = "checked-out"))]_vars

\* C10: state.timeLogs never holds two entries for the same employee and day.
C10_OneLogPerEmployeeDay ==
  \A i, j \in 1..Len(state.timeLogs) :
    i # j => ~(/\ state.timeLogs[i].employeeId = state.timeLogs[j].employeeId
               /\ state.timeLogs[i].date = state.timeLogs[j].date)

\* C11: no time-log entry ever has more than one break with breakOut = null.
C11_AtMostOneOpenBreak ==
  \A i \in 1..Len(state.timeLogs) :
    Cardinality({k \in 1..Len(state.timeLogs[i].breaks) :
                   state.timeLogs[i].breaks[k].breakOut = NoTime}) <= 1

\* C12: once an entry is checked out, no step changes any of its fields.
C12_CheckedOutIsTerminal ==
  [][\A i \in 1..Len(state.timeLogs) :
       state.timeLogs[i].status = "checked-out"
       => (/\ i <= Len(state'.timeLogs)
           /\ state'.timeLogs[i] = state.timeLogs[i])]_vars

\* C13: a leave request that is approved or rejected never changes again, and a
\* step that decides no pending request changes nobody's compLeavesUsed.
C13_DecidedLeaveIsFinal ==
  [][/\ \A i \in 1..Len(state.leaveRequests) :
          state.leaveRequests[i].status # "pending"
          => state'.leaveRequests[i] = state.leaveRequests[i]
     /\ (\A i \in 1..Len(state.leaveRequests) :
           state.leaveRequests[i].status = "pending"
           => state'.leaveRequests[i].status = "pending")
        => \A k \in 1..Len(state.employees) :
             state'.employees[k].compLeavesUsed = state.employees[k].compLeavesUsed]_vars

\* C14: a step that approves a pending leave request adds exactly 1 to the
\* requester's compLeavesUsed, whatever the length of the range, and changes no
\* other counter and no compLeavesEarned; a step that rejects one changes no counter.
C14_ApprovalCountsOne ==
  [][\A i \in 1..Len(state.leaveRequests) :
       (/\ state.leaveRequests[i].status = "pending"
        /\ state'.leaveRequests[i].status # "pending")
       => \A k \in 1..Len(state.employees) :
            /\ state'.employees[k].compLeavesEarned = state.employees[k].compLeavesEarned
            /\ state'.employees[k].compLeavesUsed =
                 state.employees[k].compLeavesUsed +
                 (IF /\ state'.leaveRequests[i].status = "approved"
                     /\ state.employees[k].id = state.leaveRequests[i].employeeId
                  THEN 1 ELSE 0)]_vars

\* a request over several days was approved and the requester charged one leave
C14_Witness ==
  /\ toast = Toast("success", "Leave approved")
  /\ \E i \in 1..Len(state.leaveRequests) :
       /\ state.leaveRequests[i].status = "approved"
       /\ state.leaveRequests[i].endDate > state.leaveRequests[i].startDate
       /\ state.leaveRequests[i].employeeId = Emp7.id
  /\ state.employees[2].compLeavesUsed = Emp7.compLeavesUsed + 1
  /\ state.employees[2].compLeavesEarned = Emp7.compLeavesEarned

\* C15: no employee has used more comp leaves than they earned.
C15_UsedWithinEarned ==
  \A k \in 1..Len(state.employees) :
    state.employees[k].compLeavesUsed <= state.employees[k].compLeavesEarned

\* C16: every stored leave request has startDate <= endDate and a reason that
\* is not blank.
C16_StoredRequestsAreValid ==
  \A i \in 1..Len(state.leaveRequests) :
    /\ state.leaveRequests[i].startDate <= state.leaveRequests[i].endDate
    /\ Trim(state.leaveRequests[i].reason) # ""

\* C17: deleteTask never removes a task that is approved or commented in the
\* store, also when the review arrived after the employee last saw it pending.
C17_DeleteOnlyPending ==
  [][SyncDeleteTask
     => \A i \in 1..Len(state.tasks) :
          state.tasks[i].status # "pending"
          => \E j \in 1..Len(state'.tasks) : state'.tasks[j].id = state.tasks[i].id]_vars

\* C18: once a task is approved or commented, no step changes its status,
\* managerComment, reviewedBy or reviewedAt.
C18_ReviewIsOneWay ==
  [][\A i \in 1..Len(state.tasks) :
       state.tasks[i].status # "pending"
       => state'.tasks[i] = state.tasks[i]]_vars

\* the records of the five collections that belong to employee E in document s
RecordsOf(s, E) ==
  <<SelectSeq(s.timeLogs, LAMBDA x : x.employeeId = E),
    SelectSeq(s.tasks, LAMBDA x : x.employeeId = E),
    SelectSeq(s.leaveRequests, LAMBDA x : x.employeeId = E),
    SelectSeq(s.payrollEntries, LAMBDA x : x.employeeId = E),
    SelectSeq(s.overtimeSettings, LAMBDA x : x.employeeId = E)>>

\* the ids of the employees of document s
EmployeeIds(s) == {s.employees[k].id : k \in 1..Len(s.employees)}

\* the step audited as the deletion of employee E
DeletionOf(E) ==
  /\ Len(state'.auditLogs) = Len(state.auditLogs) + 1
  /\ state'.auditLogs[Len(state'.auditLogs)].action = "Employee Deleted"
  /\ state'.auditLogs[Len(state'.auditLogs)].entityId = E

\* C19: the step that deletes employee E leaves no employee, time log, task,
\* leave request, payroll entry or overtime setting of E, and leaves every
\* employee other than E and every record of theirs as it was, in that one step.
C19_DeleteCascades ==
  [][\A E \in EmployeeIds(view) :
       DeletionOf(E)
       => /\ E \notin EmployeeIds(state')
          /\ RecordsOf(state', E) = <<<<>>, <<>>, <<>>, <<>>, <<>>>>
          /\ state'.employees = SelectSeq(state.employees, LAMBDA e : e.id # E)
          /\ \A other \in EmployeeIds(state) \ {E} :
               RecordsOf(state', other) = RecordsOf(state, other)]_vars

\* emp7 was deleted after the payroll held an entry of theirs; emp1's records remain
C19_Witness ==
  /\ toast = Toast("success", "Employee deleted")
  /\ Emp7.id \notin EmployeeIds(state)
  /\ Emp1.id \in EmployeeIds(state)
  /\ \E k \in 1..Len(view.payrollEntries) : view.payrollEntries[k].employeeId = Emp7.id
  /\ RecordsOf(state, Emp1.id)[4] # <<>>
  /\ RecordsOf(state, Emp1.id)[2] # <<>>

\* C20: every employee has exactly one OvertimeSettings record and every
\* OvertimeSettings record belongs to an employee of the document.
C20_OneSettingsPerEmployee ==
  /\ \A E \in EmployeeIds(state) : Len(RecordsOf(state, E)[5]) = 1
  /\ \A k \in 1..Len(state.overtimeSettings) :
       state.overtimeSettings[k].employeeId \in EmployeeIds(state)

----------------------------------------------------------------------------
(* Properties of the audit log *)

\* the records of document s that the audit entry a names
AuditedRecords(s, a) ==
  IF a.entityType = "TimeLog"
  THEN SelectSeq(s.timeLogs, LAMBDA x : x.id = a.entityId)
  ELSE SelectSeq(s.tasks, LAMBDA x : x.id = a.entityId)

\* C21: in the employee's session every step that changes the state appends
\* exactly one audit entry, of the acting user, and every step that appends an
\* audit entry changes the time log or task the entry names.
C21_AuditWithEntityChange ==
  [][/\ state' # state
        => /\ Len(state'.auditLogs) = Len(state.auditLogs) + 1
           /\ state'.auditLogs[Len(state'.auditLogs)].userId = currentUserId
     /\ Len(state'.auditLogs) > Len(state.auditLogs)
        => AuditedRecords(state', state'.auditLogs[Len(state'.auditLogs)])
             # AuditedRecords(state, state'.auditLogs[Len(state'.auditLogs)])]_vars

\* Array.prototype.slice(0, n) = s, for the audit logs
IsPrefix(s, t) == Len(s) <= Len(t) /\ SubSeq(t, 1, Len(s)) = s

\* C22: across every step of the client, a poll replacing the local state
\* included, the audit log before the step is a prefix of the audit log after.
C22_AuditLogAppendOnly ==
  [][IsPrefix(state.auditLogs, state'.auditLogs)]_vars

\* the entries the store holds for the logged-in employee and the day
StoredLogsToday ==
  SelectSeq(state.timeLogs,
            LAMBDA log : log.employeeId = currentUserId /\ log.date = today)

\* C23: a check-in when the store holds an entry of the day, a check-out with
\* no stored entry, a checked-out one or no stored task, a break start with no
\* stored entry, a checked-out one or an open break, and a break end with no
\* open break in the store each leave the whole state, audit log included, as
\* it was.
C23_RejectedChangesNothing ==
  [][/\ (handleCheckIn /\ Len(StoredLogsToday) > 0) => state' = state
     /\ (/\ handleCheckOut
         /\ \/ Len(StoredLogsToday) = 0
            \/ StoredLogsToday[1].checkOut # NoTime
            \/ Len(StoredTasksToday) = 0) => state' = state
     /\ (/\ handleBreakIn
         /\ \/ Len(StoredLogsToday) = 0
            \/ StoredLogsToday[1].checkOut # NoTime
            \/ \E k \in 1..Len(StoredLogsToday[1].breaks) :
                 StoredLogsToday[1].breaks[k].breakOut = NoTime) => state' = state
     /\ (/\ handleBreakOut
         /\ \/ Len(StoredLogsToday) = 0
            \/ \A k \in 1..Len(StoredLogsToday[1].breaks) :
                 StoredLogsToday[1].breaks[k].breakOut # NoTime) => state' = state]_vars

----------------------------------------------------------------------------
(* Properties of the payroll entries *)

\* C30: every payroll entry of the state has totalPay = regularPay + overtimePay,
\* after handleProcessPayroll and after every handleUpdatePayroll.
C30_TotalPayIsSum ==
  \A i \in 1..Len(state.payrollEntries) :
    state.payrollEntries[i].totalPay =
      state.payrollEntries[i].regularPay + state.payrollEntries[i].overtimePay

\* an entry edited to 10 overtime hours carries overtime pay in its total
C30_Witness ==
  /\ toast = Toast("success", "Payroll updated")
  /\ \E i \in 1..Len(state.payrollEntries) :
       /\ state.payrollEntries[i].overtimeHours = 10
       /\ state.payrollEntries[i].overtimePay > 0
       /\ state.payrollEntries[i].regularPay > 0
       /\ state.payrollEntries[i].totalPay > state.payrollEntries[i].regularPay

----------------------------------------------------------------------------
(* Properties of the sync poll, of loading and saving, and of the server *)

\* C24: the interval callback that receives a poll response replaces the state
\* with the fetched document, and remembers it, exactly when the fetch
\* succeeded with a document that differs from the last one delivered; else it
\* leaves the state and the last-seen snapshot untouched.
C24_PollReplacesOnChange ==
  [][\A response \in polls :
       PollResponse(response)
       => IF response.ok /\ response.data # Null /\ response.data # lastDataHash
          THEN state' = response.data /\ lastDataHash' = response.data
          ELSE state' = state /\ lastDataHash' = lastDataHash]_vars

\* a poll delivered the server's document over a local check-in not yet rendered
\* into it, and no response is left in flight
C24_Witness ==
  /\ polls = {}
  /\ lastDataHash = remote
  /\ state = lastDataHash
  /\ view # state
  /\ Len(view.auditLogs) = 1

\* C25: while nobody is logged in (the poll is stopped), no step changes the
\* local state or the last-seen snapshot.
C25_NoDeliveryAfterStop ==
  [][(currentUserId = NoId /\ loading = "done")
     => (state' = state /\ lastDataHash' = lastDataHash)]_vars

\* C26: a save that fails leaves the in-memory state and the render as the
\* mutation produced them, and the call completes.
C26_FailedSaveKeepsState ==
  [][\A data \in saves :
       SaveFails(data)
       => /\ state' = state
          /\ view' = view
          /\ data \notin saves']_vars

\* the store was never written, the save of a check-in failed and was cached
\* instead, and the state still holds the check-in
C26_Witness ==
  /\ remote = Null
  /\ loading = "done"
  /\ saves = {}
  /\ Len(state.auditLogs) = 1
  /\ Len(state.timeLogs) = 1
  /\ localStorage = state

\* C27: an init request writes the store only when the store is empty, and at
\* most one init request is ever answered initialized: true.
C27_InitWritesEmptyStoreOnly ==
  [][\A req \in inits :
       InitWrite(req) => (remote = Null /\ initOk = 0)]_vars

\* C28: every write stores the document it carries whole (a body without a
\* data field stores nothing), nothing but a write changes the store, and a
\* GET is answered with the stored document, or null on an empty store.
C28_StoreHoldsLastWrite ==
  [][/\ \A body \in OtherBodies :
          PostRoute(body)
          => remote' = (IF "data" \in DOMAIN body THEN body.data ELSE remote)
     /\ \A data \in saves : PostData(data) => remote' = data
     /\ \A req \in inits : InitWrite(req) => remote' = req.data
     /\ remote' # remote
          => \/ remote' \in saves
             \/ \E req \in inits : req.checked /\ remote' = req.data
             \/ \E body \in OtherBodies : "data" \in DOMAIN body /\ remote' = body.data
     /\ \A response \in polls' \ polls :
          response.ok => response.data = remote]_vars

\* the store held the document with the local check-in (a poll delivered it),
\* and now holds the other browser's document, with nothing of the former
C28_Witness ==
  /\ lastDataHash # Null
  /\ Len(lastDataHash.auditLogs) = 1
  /\ remote = LoadedDoc

\* C29: when the GET of loadData succeeds with a document, the state App gets
\* is that document and it is cached.
C29_LoadReturnsRemote ==
  [][\A setItemOk \in BOOLEAN :
       (loadData(TRUE, setItemOk) /\ remote # Null)
       => (state' = remote /\ localStorage' = remote)]_vars

----------------------------------------------------------------------------
(* Properties of roles, of the time tracker's live hours and of the sync    *)
(* manager                                                                  *)

\* the role the employee `id` holds in the document s, "none" when absent
RoleIn(s, id) ==
  LET emp == Find(s.employees, LAMBDA e : e.id = id)
  IN IF emp = Null THEN "none" ELSE emp.role

\* the positions of the records of `after` a step changed into one of `statuses`
Reviewed(before, after, statuses) ==
  { i \in 1..Len(after) :
      /\ after[i].status \in statuses
      /\ (i > Len(before) \/ before[i] # after[i]) }

TrackerShowsEntry == ViewShown = "employee" /\ todayTimeLog # Null
TrackerShowsOpenEntry == TrackerShowsEntry /\ todayTimeLog.checkOut = NoTime

\* C32: while the entry the tracker shows is checked in, the live hours equal
\* max(0, (now - checkIn) - closed breaks - (now - breakIn) of an open break),
\* and a check-out applied at that time stores exactly the live hours.
C32_LiveHoursAreCheckOutHours ==
  [][TrackerShowsOpenEntry
     => /\ calculateHoursWorked = NetHours(todayTimeLog, now)
        /\ (state' # state /\ handleCheckOut)
             => \A i \in 1..Len(state.timeLogs) :
                  state'.timeLogs[i] # state.timeLogs[i]
                  => state'.timeLogs[i].totalHours = calculateHoursWorked]_vars

\* the employee is on a break that has lasted an hour, after an hour of work
C32_Witness ==
  /\ TrackerShowsOpenEntry
  /\ OnBreak(todayTimeLog)
  /\ now - todayTimeLog.checkIn = 2 * MsPerHour
  /\ calculateHoursWorked = 1

\* the positions of the stored entries of the logged-in employee for today
StoredTodayIndexes ==
  { i \in 1..Len(state.timeLogs) :
      state.timeLogs[i].employeeId = currentUserId /\ state.timeLogs[i].date = today }

\* the positions of the breaks of `after` that differ from those of `before`
ChangedBreaks(before, after) ==
  { k \in 1..Len(after.breaks) :
      k > Len(before.breaks) \/ after.breaks[k] # before.breaks[k] }

\* C33: a Break Out applied to a stored entry of today that has an open break
\* sets breakOut = now on one open break and leaves the other breaks, the
\* other fields of the entry and the other entries as they were; applied when
\* no stored entry of today has an open break, it changes nothing.
C33_BreakEndFrame ==
  [][(state' # state /\ handleBreakOut)
     => /\ \E i \in StoredTodayIndexes : OnBreak(state.timeLogs[i])
        /\ Len(state'.timeLogs) = Len(state.timeLogs)
        /\ \A i \in 1..Len(state.timeLogs) :
             LET before == state.timeLogs[i]
                 after == state'.timeLogs[i]
             IN IF i \in StoredTodayIndexes /\ OnBreak(before)
                THEN /\ [after EXCEPT !.breaks = before.breaks] = before
                     /\ Len(after.breaks) = Len(before.breaks)
                     /\ \E k \in 1..Len(before.breaks) :
                          /\ ChangedBreaks(before, after) = {k}
                          /\ before.breaks[k].breakOut = NoTime
                          /\ after.breaks[k] = [before.breaks[k] EXCEPT !.breakOut = now]
                ELSE after = before]_vars

\* C34: every stored time log entry has status checked-in or checked-out, the
\* status is checked-out exactly when checkOut is set, and an entry that is
\* not checked out has totalHours 0.
C34_StatusFollowsCheckOut ==
  \A i \in 1..Len(state.timeLogs) :
    LET log == state.timeLogs[i]
    IN /\ log.status \in {"checked-in", "checked-out"}
       /\ log.status = "checked-out" <=> log.checkOut # NoTime
       /\ log.checkOut = NoTime => log.totalHours = 0

\* one entry checked out with an hour worked, another still checked in
C34_Witness ==
  /\ \E i \in 1..Len(state.timeLogs) :
       /\ state.timeLogs[i].status = "checked-out"
       /\ state.timeLogs[i].totalHours >= 1
  /\ \E i \in 1..Len(state.timeLogs) : state.timeLogs[i].status = "checked-in"

\* C35: the manager has at most one live interval, and isRunning() is true
\* exactly when it has one; start() while running changes nothing, stop()
\* leaves no interval and isRunning() false, stop() while stopped changes
\* nothing.
C35_AtMostOneTimer ==
  [][/\ Cardinality(syncManager'.timers) <= 1
     /\ isRunning(syncManager') <=> syncManager'.timers # {}
     /\ (isRunning(syncManager) /\ StartSync) => syncManager' = syncManager
     /\ StopSync => (~isRunning(syncManager') /\ syncManager'.timers = {})
     /\ (~isRunning(syncManager) /\ StopSync) => syncManager' = syncManager]_vars

\* the manager runs its one interval, a tick of it has delivered a document
\* and the response of another is in flight
C35_Witness ==
  /\ isRunning(syncManager)
  /\ syncManager.timers = {syncManager.syncInterval}
  /\ lastDataHash # Null
  /\ polls # {}

\* a user is logged in and the initial load has finished
LoggedInAndLoaded == currentUserId # NoId /\ loading = "done"

\* C36: the sync manager is running exactly while a user is logged in and the
\* initial load has finished, and a poll tick is sent only then.
C36_PollingWhileLoggedIn ==
  [][/\ isRunning(syncManager) <=> LoggedInAndLoaded
     /\ isRunning(syncManager') <=> LoggedInAndLoaded'
     /\ polls' \ polls # {} => LoggedInAndLoaded]_vars

\* emp7 checked in and logged out, the admin emp1 logged in after that, and a
\* tick of the restarted manager has its response in flight
C36_Witness ==
  /\ currentUserId = Emp1.id
  /\ Len(state.auditLogs) = 1
  /\ state.auditLogs[1].userId = Emp7.id
  /\ isRunning(syncManager)
  /\ polls # {}

\* C37: a save of a document that holds no operation of this client (the
\* state it loaded, or one a poll applied) does not change a document the
\* store holds.
C37_PassiveClientNeverWrites ==
  [][\A data \in saves :
       (PostData(data) /\ Len(data.auditLogs) = 0 /\ remote # Null)
       => remote' = remote]_vars

\* both browsers hold the server's document
Converged == state = remote /\ peer.state = remote

\* C38: once no browser makes a change any more, and renders, saves and polls
\* keep happening, both browsers eventually hold the server's document and
\* keep holding it.
C38_Converges == <>[]Converged

\* C39: for a checked-out entry the tracker shows, the live hours are the
\* stored totalHours, and they stay the same while that entry is shown,
\* whatever time passes.
C39_CheckedOutHoursAreStored ==
  [][(TrackerShowsEntry /\ todayTimeLog.checkOut # NoTime)
     => /\ calculateHoursWorked = todayTimeLog.totalHours
        /\ (TrackerShowsEntry' /\ todayTimeLog' = todayTimeLog)
             => calculateHoursWorked' = calculateHoursWorked]_vars

\* the hours and the pay of a payroll entry
HoursAndPay(entry) ==
  <<entry.regularHours, entry.overtimeHours,
    entry.regularPay, entry.overtimePay, entry.totalPay>>

\* C40: an update whose patch holds only status and notes, applied to the one
\* stored entry that has the id of the entry being edited, leaves the hours
\* and the pay of that entry as they were.
C40_StatusPatchKeepsPay ==
  [][\A editValues \in EditValues :
       (/\ DOMAIN editValues \subseteq {"status", "notes"}
        /\ state' # state
        /\ handleUpdatePayroll(editValues)
        /\ CountFor(state.payrollEntries, selectedPayroll.employeeId,
                    selectedPayroll.month) = 1)
       => /\ Len(state'.payrollEntries) = Len(state.payrollEntries)
          /\ \A i \in 1..Len(state.payrollEntries) :
               (state.payrollEntries[i].employeeId = selectedPayroll.employeeId
                  /\ state.payrollEntries[i].month = selectedPayroll.month)
               => HoursAndPay(state'.payrollEntries[i])
                    = HoursAndPay(state.payrollEntries[i])]_vars

====
